---- MODULE Spec2Model ----
(***************************************************************************)
(* wbtn: the Connection & Integrity Manager (WebtoonConnectionManager) as  *)
(* a state machine over one target file, one in-memory database, one       *)
(* manager object and the two override variables of the process            *)
(* environment (Spec), and the path manager (WebtoonPathManager) of an     *)
(* open container as a state machine over its base directory, its flags,   *)
(* the suggested directory of the container and the working directory of   *)
(* the process (SpecPath), and the value conversion (WebtoonValue) of an   *)
(* open container over Python values, JSON texts and that path manager     *)
(* (SpecValue).                                                            *)
(* The JsonData object of a program is a state machine of its own          *)
(* (SpecJson), and so is the media manager (WebtoonMediaManger) of an open *)
(* container, with its table, the files it writes and the handle of a row  *)
(* (WebtoonMedia) (SpecMedia). The rows of the media table through their  *)
(* life, written back, spilled to a file, materialized and removed, are    *)
(* the last one (SpecStore).                                               *)
(***************************************************************************)
EXTENDS Integers, FiniteSets, Sequences, TLC

VARIABLES
    file,       \* the target on disk: kind, header fields, tables, Info rows
    memdb,      \* the database of the in-memory connection, if one is open
    path,       \* WebtoonConnectionManager.path (None for ":memory:")
    settings,   \* WebtoonConnectionManager.settings (ConnectionSettings)
    conn,       \* WebtoonConnectionManager._conn (NoConn or a connection id)
    live,       \* the backing sqlite connections that are open
    in_memory,  \* WebtoonConnectionManager.in_memory (FALSE until _connect sets it)
    existed,    \* WebtoonConnectionManager.existed (FALSE until _connect sets it)
    env,        \* os.environ, restricted to the two override variables
    outcome,    \* what the last call did: operation, argument, exception, warnings
    before,     \* kind and header of the target file when connect() started, if that
                \* was the last call, and as they are now otherwise
    _base_path,                 \* WebtoonPathManager._base_path (Nothing for None)
    convert_absolute,           \* WebtoonPathManager.convert_absolute
    self_contained,             \* WebtoonPathManager.self_contained
    fallback_base_path,         \* WebtoonPathManager.fallback_base_path
    auto_initialize_base_path,  \* WebtoonPathManager.auto_initialize_base_path
    sys_base_directory,         \* what info.get("sys_base_directory") returns
    cwd,                        \* Path.cwd(), the working directory of the process
    payload,    \* a JsonData object: _data, _raw, conversion (Nothing before it is made)
    handle,     \* a WebtoonMedia object: _media_id, _webtoon, _media (Nothing before)
    media,      \* the rows of the media table
    disk        \* the files outside the container: path and content

\* the variables of the connection manager and of the process environment
connvars == <<file, memdb, path, settings, conn, live, in_memory, existed, env>>

\* the variables of the path manager
pathvars == <<_base_path, convert_absolute, self_contained, fallback_base_path,
              auto_initialize_base_path, sys_base_directory, cwd>>

\* the objects of the program and what the media manager keeps
objvars == <<payload, handle, media, disk>>

vars == <<connvars, outcome, before, pathvars, objvars>>

----
\* Program constants

\* _base.SCHEMA_VERSION, imported as user_version by _connection.py
user_version == 1000

\* APPLICATION_ID = 0x5742544e, the bytes "WBTN"
APPLICATION_ID == 1463964750

\* the foreign marker 0x12345678 of test_open_file_with_wrong_application_id_raises_error
ForeignApplicationId == 305419896

JOURNAL_MODES == {"delete", "truncate", "persist", "memory", "wal", "off"}

\* the six tables of _add_tables
TableNames == {"Info", "Episode", "EpisodeInfo", "Content", "ContentInfo", "ExtraFile"}

\* the rows _add_info inserts
BaselineInfoNames == {"sys_agent", "sys_agent_version", "sys_created_at",
                      "sys_base_directory", "sys_packager", "sys_platform"}

\* Python's None, for path and journal_mode
None == "None"

\* no connection object: the None of _conn
NoConn == 0

\* an environment variable that is not set
Unset == "unset"

----
\* Input domains of the model

Markers == {0, APPLICATION_ID, ForeignApplicationId}

Versions == {-1, 0, 1, 1000, 1001, 2000}

\* the values assigned to the file_user_version property
VersionInputs == {1, 2000}

\* journal_mode of a manager on a file: unset, permitted, not a journal mode
FileJournalInputs == {None, "wal", "bogus"}

\* journal_mode of a manager in memory: unset, the two permitted in memory, one
\* not permitted in memory
MemoryJournalInputs == {None, "memory", "off", "wal"}

\* (read_only, create_db, clear_existing_db) of a manager on a file: one triple
\* per arm of the match in _connect
FileModeInputs == {<<TRUE, TRUE, FALSE>>, <<FALSE, FALSE, FALSE>>, <<FALSE, TRUE, FALSE>>,
                   <<FALSE, TRUE, TRUE>>, <<FALSE, FALSE, TRUE>>}

\* the same of a manager in memory: one triple per branch of _connect, and the
\* clobber flag of test_memory_database_with_clear_existing_db
MemoryModeInputs == {<<TRUE, TRUE, FALSE>>, <<FALSE, FALSE, FALSE>>, <<FALSE, TRUE, FALSE>>,
                     <<FALSE, TRUE, TRUE>>}

FilePath == "target.wbtn"

\* the Info names of the model
InfoNames == BaselineInfoNames

\* the Info names the user edits in the model
EditNames == {"sys_agent"}

EnvNames == {"WBTN_FORCE_OPEN_FUTURE_FORMAT", "WBTN_FORCE_OPEN_PAST_FORMAT"}

EnvValues == {Unset, "1"}

----
\* Databases

NoInfo == [n \in InfoNames |-> "absent"]

MissingDb == [kind |-> "missing", application_id |-> 0, user_version |-> 0,
              tables |-> {}, info |-> NoInfo]

EmptyDb == [MissingDb EXCEPT !.kind = "empty"]

\* the databases a target can hold before the program first touches it
InitialDbs ==
    {MissingDb, EmptyDb} \cup
    { [kind |-> "db", application_id |-> a, user_version |-> v, tables |-> t,
       info |-> NoInfo] :
        a \in Markers, v \in Versions, t \in {{}} }

ConnectionSettings(m, j, b) ==
    [read_only |-> m[1], create_db |-> m[2], clear_existing_db |-> m[3],
     journal_mode |-> j, bypass_integrity_check |-> b]

\* the arguments of WebtoonConnectionManager(path, settings)
ManagerInputs ==
    { <<FilePath, ConnectionSettings(m, j, b)>> :
        m \in FileModeInputs, j \in FileJournalInputs, b \in BOOLEAN } \cup
    { <<None, ConnectionSettings(m, j, FALSE)>> :
        m \in MemoryModeInputs, j \in MemoryJournalInputs }

\* ConnectionSettings._configure_pragma_only: a class attribute of a slotted
\* dataclass, which no instance can rebind
_configure_pragma_only == FALSE

NoExc == "no exception"

Quiet == [op |-> "none", exc |-> NoExc, warned |-> FALSE, arg |-> 0]

----
\* The manager and its databases as one value, threaded through the steps of a call

World == [file |-> file, memdb |-> memdb, conn |-> conn, live |-> live,
          in_memory |-> in_memory, existed |-> existed, exc |-> NoExc, warned |-> FALSE]

Raise(w, e) == [w EXCEPT !.exc = e]

\* the database behind the manager's connection
Db(w) == IF w.in_memory THEN w.memdb ELSE w.file

SetDb(w, d) == IF w.in_memory THEN [w EXCEPT !.memdb = d] ELSE [w EXCEPT !.file = d]

\* a PRAGMA that writes a header field: the file is no longer empty afterwards
WriteHeader(w, field, value) ==
    SetDb(w, [Db(w) EXCEPT !.kind = "db", ![field] = value])

\* os.getenv(name, default)
getenv(name, default) == IF env[name] = Unset THEN default ELSE env[name]

\* sqlite3.connect: a fresh connection object
NewConnection(w) == CHOOSE c \in 1..(Cardinality(w.live) + 1) : c \notin w.live

\* sqlite3.Connection.close() on the manager's connection
CloseBacking(w) ==
    [w EXCEPT !.live = w.live \ {w.conn},
              !.memdb = IF w.in_memory THEN MissingDb ELSE w.memdb]

----
\* _connection without its read_only test
_connection_NoReadOnlyTest(w, write) ==
    IF w.conn = NoConn THEN Raise(w, "WebtoonConnectionError") ELSE w

\* WebtoonConnectionManager._connection(write); write is its truth value,
\* FALSE for both write=False and write=None
_connection(w, write) ==
    IF w.conn = NoConn THEN Raise(w, "WebtoonConnectionError")
    ELSE IF write /\ settings.read_only THEN Raise(w, "WebtoonConnectionError")
    ELSE w

\* file_user_version (getter), on an open connection: PRAGMA user_version
file_user_version(w) == Db(w).user_version

\* the setter without its downgrade guard
set_file_user_version_NoGuard(w, v) ==
    LET c == _connection(w, TRUE)
    IN  IF c.exc # NoExc THEN c ELSE WriteHeader(w, "user_version", v)

\* file_user_version (setter): the getter's _connection(write=False) first,
\* then the downgrade guard, then _connection() and the PRAGMA
set_file_user_version(w, v) ==
    LET g == _connection(w, FALSE)
    IN  IF g.exc # NoExc THEN g
        ELSE IF file_user_version(w) > v THEN Raise(w, "WebtoonSchemaError")
        ELSE LET c == _connection(w, TRUE)
             IN  IF c.exc # NoExc THEN c ELSE WriteHeader(w, "user_version", v)

\* _connect, path is None
ConnectMemory(w) ==
    IF settings.read_only THEN Raise(w, "WebtoonOpenError")
    ELSE IF ~settings.create_db THEN Raise(w, "WebtoonOpenError")
    ELSE LET c == NewConnection(w)
         IN  [w EXCEPT !.in_memory = TRUE, !.existed = FALSE, !.conn = c,
                       !.live = w.live \cup {c}, !.memdb = EmptyDb]

\* Path.touch: creates an empty file when there is none
Touch(f) == IF f.kind = "missing" THEN EmptyDb ELSE f

\* the mode, the file after touch/unlink, and the exception of the match statement
OpenMode ==
    IF settings.read_only THEN [mode |-> "ro", file |-> file, exc |-> NoExc]
    ELSE IF ~settings.clear_existing_db THEN
        IF ~settings.create_db THEN [mode |-> "rw", file |-> file, exc |-> NoExc]
        ELSE [mode |-> "rwc", file |-> Touch(file), exc |-> NoExc]
    ELSE IF file.kind = "missing" /\ ~settings.create_db
        THEN [mode |-> "rwc", file |-> file, exc |-> "FileNotFoundError"]
        ELSE [mode |-> "rwc", file |-> EmptyDb, exc |-> NoExc]

\* _connect, path is a file
ConnectFile(w) ==
    LET m  == OpenMode
        w1 == [w EXCEPT !.in_memory = FALSE, !.file = m.file]
    IN  IF m.exc # NoExc THEN Raise(w1, m.exc)
        ELSE LET w2 == [w1 EXCEPT !.existed = (m.file.kind = "db")]
                 c  == NewConnection(w2)
             IN  IF m.mode \in {"ro", "rw"} /\ m.file.kind = "missing"
                 THEN Raise(w2, "WebtoonOpenError")
                 ELSE [w2 EXCEPT !.conn = c, !.live = w2.live \cup {c}]

\* WebtoonConnectionManager._connect
_connect(w) == IF path = None THEN ConnectMemory(w) ELSE ConnectFile(w)

\* the marker check with only its zero test
_check_application_id_ZeroOnly(w) ==
    IF ~w.existed THEN w
    ELSE IF Db(w).application_id = 0 THEN Raise(w, "WebtoonSchemaError")
    ELSE w

\* WebtoonConnectionManager._check_application_id
_check_application_id(w) ==
    IF ~w.existed THEN w
    ELSE IF Db(w).application_id = 0 THEN Raise(w, "WebtoonSchemaError")
    ELSE IF APPLICATION_ID # Db(w).application_id THEN Raise(w, "WebtoonSchemaError")
    ELSE w

\* the version check consulting the legacy override for a future format
_check_user_version_WrongOverride(w) ==
    IF ~w.existed THEN w
    ELSE IF file_user_version(w) = 0 THEN
        IF settings.read_only THEN [w EXCEPT !.warned = TRUE]
        ELSE set_file_user_version([w EXCEPT !.warned = TRUE], user_version)
    ELSE IF /\ user_version \div 1000 < file_user_version(w) \div 1000
            /\ getenv("WBTN_FORCE_OPEN_PAST_FORMAT", "0") = "0"
        THEN Raise(w, "WebtoonSchemaError")
    ELSE IF /\ user_version \div 1000 > file_user_version(w) \div 1000
            /\ getenv("WBTN_FORCE_OPEN_PAST_FORMAT", "0") = "0"
        THEN Raise(w, "WebtoonSchemaError")
    ELSE w

\* the version check without its legacy-format test
_check_user_version_NoLegacyTest(w) ==
    IF ~w.existed THEN w
    ELSE IF file_user_version(w) = 0 THEN
        IF settings.read_only THEN [w EXCEPT !.warned = TRUE]
        ELSE set_file_user_version([w EXCEPT !.warned = TRUE], user_version)
    ELSE IF /\ user_version \div 1000 < file_user_version(w) \div 1000
            /\ getenv("WBTN_FORCE_OPEN_FUTURE_FORMAT", "0") = "0"
        THEN Raise(w, "WebtoonSchemaError")
    ELSE w

\* the version check without its case for an uninitialized version
_check_user_version_NoZeroCase(w) ==
    IF ~w.existed THEN w
    ELSE IF /\ user_version \div 1000 < file_user_version(w) \div 1000
            /\ getenv("WBTN_FORCE_OPEN_FUTURE_FORMAT", "0") = "0"
        THEN Raise(w, "WebtoonSchemaError")
    ELSE IF /\ user_version \div 1000 > file_user_version(w) \div 1000
            /\ getenv("WBTN_FORCE_OPEN_PAST_FORMAT", "0") = "0"
        THEN Raise(w, "WebtoonSchemaError")
    ELSE w

\* WebtoonConnectionManager._check_user_version
_check_user_version(w) ==
    IF ~w.existed THEN w
    ELSE IF file_user_version(w) = 0 THEN
        IF settings.read_only THEN [w EXCEPT !.warned = TRUE]
        ELSE set_file_user_version([w EXCEPT !.warned = TRUE], user_version)
    ELSE IF /\ user_version \div 1000 < file_user_version(w) \div 1000
            /\ getenv("WBTN_FORCE_OPEN_FUTURE_FORMAT", "0") = "0"
        THEN Raise(w, "WebtoonSchemaError")
    ELSE IF /\ user_version \div 1000 > file_user_version(w) \div 1000
            /\ getenv("WBTN_FORCE_OPEN_PAST_FORMAT", "0") = "0"
        THEN Raise(w, "WebtoonSchemaError")
    ELSE w

\* _set_journal_mode without its test for an in-memory database
_set_journal_mode_NoMemoryTest(w) ==
    IF settings.journal_mode = None THEN w
    ELSE IF settings.journal_mode \notin JOURNAL_MODES THEN Raise(w, "WebtoonOpenError")
    ELSE w

\* WebtoonConnectionManager._set_journal_mode
_set_journal_mode(w) ==
    IF settings.journal_mode = None THEN w
    ELSE IF w.in_memory /\ settings.journal_mode \notin {"memory", "off"}
        THEN Raise(w, "WebtoonOpenError")
    ELSE IF settings.journal_mode \notin JOURNAL_MODES THEN Raise(w, "WebtoonOpenError")
    ELSE w

\* the version written past the setter
ForcedVersionWrite(w) == WriteHeader(w, "user_version", user_version)

\* with suppress(WebtoonSchemaError): self.file_user_version = user_version
SuppressedVersionWrite(w) ==
    LET r == set_file_user_version(w, user_version)
    IN  IF r.exc = "WebtoonSchemaError" THEN w ELSE r

\* the writes of _configure_pragma, after the checks and the read_only return
PragmaWrites(w) ==
    LET w1 == IF ~w.existed THEN WriteHeader(w, "application_id", APPLICATION_ID) ELSE w
        w2 == IF settings.bypass_integrity_check
              THEN WriteHeader(w1, "user_version", user_version)
              ELSE SuppressedVersionWrite(w1)
    IN  IF w2.exc # NoExc THEN w2 ELSE _set_journal_mode(w2)

\* _configure_pragma without its return on a read-only manager
_configure_pragma_NoReadOnlyReturn(w) ==
    LET marked  == IF settings.bypass_integrity_check THEN w ELSE _check_application_id(w)
        checked == IF settings.bypass_integrity_check \/ marked.exc # NoExc
                   THEN marked
                   ELSE _check_user_version(marked)
    IN  IF checked.exc # NoExc THEN checked
        ELSE PragmaWrites(checked)

\* WebtoonConnectionManager._configure_pragma
_configure_pragma(w) ==
    LET marked  == IF settings.bypass_integrity_check THEN w ELSE _check_application_id(w)
        checked == IF settings.bypass_integrity_check \/ marked.exc # NoExc
                   THEN marked
                   ELSE _check_user_version(marked)
    IN  IF checked.exc # NoExc \/ settings.read_only THEN checked
        ELSE PragmaWrites(checked)

\* WebtoonConnectionManager._add_tables
_add_tables(w) == SetDb(w, [Db(w) EXCEPT !.kind = "db", !.tables = @ \cup TableNames])

\* the baseline rows inserted whether or not the store existed
_add_info_Always(w) ==
    IF \E n \in BaselineInfoNames : Db(w).info[n] # "absent"
        THEN Raise(w, "sqlite3.IntegrityError")
    ELSE SetDb(w, [Db(w) EXCEPT !.info =
                [n \in InfoNames |-> IF n \in BaselineInfoNames THEN "base" ELSE @[n]]])

\* WebtoonConnectionManager._add_info
_add_info(w) ==
    IF w.existed THEN w
    ELSE IF \E n \in BaselineInfoNames : Db(w).info[n] # "absent"
        THEN Raise(w, "sqlite3.IntegrityError")
    ELSE SetDb(w, [Db(w) EXCEPT !.info =
                [n \in InfoNames |-> IF n \in BaselineInfoNames THEN "base" ELSE @[n]]])

\* the bootstrap of connect(), skipped on read-only and pragma-only opens
Bootstrap(w) ==
    IF ~settings.read_only /\ ~_configure_pragma_only
    THEN LET t == _add_tables(w)
         IN  IF t.exc # NoExc THEN t ELSE _add_info(t)
    ELSE w

\* the handler forgetting the connection without closing it
ConnectCleanup_NoClose(w) ==
    IF w.exc = NoExc \/ w.conn = NoConn THEN w
    ELSE [w EXCEPT !.conn = NoConn]

\* except BaseException: close what was opened, forget it, re-raise
ConnectCleanup(w) ==
    IF w.exc = NoExc \/ w.conn = NoConn THEN w
    ELSE [CloseBacking(w) EXCEPT !.conn = NoConn]

\* WebtoonConnectionManager.connect, on a manager that is closed
ConnectBody(w) ==
    LET opened     == _connect(w)
        configured == IF opened.exc # NoExc THEN opened ELSE _configure_pragma(opened)
        booted     == IF configured.exc # NoExc THEN configured ELSE Bootstrap(configured)
    IN  ConnectCleanup(booted)

\* connect() without its early return
connect_NoEarlyReturn(w) == ConnectBody(w)

\* WebtoonConnectionManager.connect
connect(w) == IF w.conn # NoConn THEN w ELSE ConnectBody(w)

\* WebtoonConnectionManager.close
close(w) == [(IF w.conn # NoConn THEN CloseBacking(w) ELSE w) EXCEPT !.conn = NoConn]

\* WebtoonConnectionManager.cursor, then one writing statement on the Info table:
\* sqlite refuses it on a mode=ro connection and when the table is missing
InfoStatement(w) ==
    LET c == _connection(w, FALSE)
    IN  IF c.exc # NoExc THEN c
        ELSE IF settings.read_only THEN Raise(w, "sqlite3.OperationalError")
        ELSE IF "Info" \notin Db(w).tables THEN Raise(w, "sqlite3.OperationalError")
        ELSE w

\* WebtoonInfoManager._protect_system_key: key.startswith("sys_")
IsSystemKey(name) == name \in BaselineInfoNames

\* WebtoonInfoManager.set: INSERT OR REPLACE
info_set(w, name) ==
    LET c == InfoStatement(w)
    IN  IF c.exc # NoExc THEN c
        ELSE SetDb(w, [Db(w) EXCEPT !.info[name] = "user"])

\* WebtoonInfoManager.delete
info_delete(w, name, delete_system) ==
    IF ~delete_system /\ IsSystemKey(name) THEN Raise(w, "KeyError")
    ELSE LET c == InfoStatement(w)
         IN  IF c.exc # NoExc THEN c
             ELSE IF Db(w).info[name] = "absent" THEN Raise(w, "KeyError")
             ELSE SetDb(w, [Db(w) EXCEPT !.info[name] = "absent"])

----
\* Paths. A string is a sequence of tokens: the separator "/", the names "." and
\* "..", and file or directory names. A pathlib.Path is its root and its parts.

\* Optional values: None, and a value that is there
Nothing == <<>>

Some(x) == <<x>>

\* Path(s): the separators and the "." components go, ".." stays
Path(s) ==
    [absolute |-> Len(s) > 0 /\ s[1] = "/",
     parts    |-> SelectSeq(s, LAMBDA t : t \notin {"/", "."})]

RECURSIVE Joined(_)
\* the parts with a separator between them
Joined(parts) ==
    IF Len(parts) <= 1 THEN parts
    ELSE <<Head(parts), "/">> \o Joined(Tail(parts))

\* str(path)
str(p) ==
    IF p.absolute THEN <<"/">> \o Joined(p.parts)
    ELSE IF p.parts = <<>> THEN <<".">>
    ELSE Joined(p.parts)

\* Path.is_absolute
is_absolute(p) == p.absolute

RECURSIVE Collapse(_, _)
\* the ".." components of an absolute path removed with the component before
\* them; ".." at the root stays at the root
Collapse(done, rest) ==
    IF rest = <<>> THEN done
    ELSE IF Head(rest) = ".."
        THEN Collapse(IF done = <<>> THEN done ELSE SubSeq(done, 1, Len(done) - 1), Tail(rest))
        ELSE Collapse(Append(done, Head(rest)), Tail(rest))

\* Path.resolve, in a file system without symbolic links: a relative path is
\* taken from the working directory, then normalised
resolve(p) ==
    [absolute |-> TRUE,
     parts    |-> Collapse(<<>>, IF p.absolute THEN p.parts ELSE cwd.parts \o p.parts)]

\* whether Path.relative_to(base) returns rather than raises ValueError
IsRelativeTo(p, base) ==
    /\ p.absolute = base.absolute
    /\ Len(base.parts) <= Len(p.parts)
    /\ SubSeq(p.parts, 1, Len(base.parts)) = base.parts

\* Path.relative_to(base), when it returns
relative_to(p, base) ==
    [absolute |-> FALSE, parts |-> SubSeq(p.parts, Len(base.parts) + 1, Len(p.parts))]

\* base / path
Join(base, p) ==
    IF p.absolute THEN p
    ELSE [absolute |-> base.absolute, parts |-> base.parts \o p.parts]

\* Path.parent
parent(p) ==
    IF p.parts = <<>> THEN p
    ELSE [p EXCEPT !.parts = SubSeq(p.parts, 1, Len(p.parts) - 1)]

----
\* Input domains of the path manager

\* the directories the process works in
Dirs == {Path(<<"/", "data">>), Path(<<"/", "data", "/", "sub">>)}

\* WebtoonConnectionManager.path of a container on a file, absolute and relative
ContainerPaths == {Path(<<"/", "data", "/", "sub", "/", "t.wbtn">>),
                   Path(<<"sub", "/", "t.wbtn">>)}

\* a value of the Info table as info.get returns it: its type, its text, and
\* whether it comes wrapped in a JsonData
InfoValue(type, text, json) == [type |-> type, text |-> text, json |-> json]

\* the NULL that _add_info stores for sys_base_directory
NullValue == InfoValue("null", <<>>, FALSE)

\* the values of sys_base_directory: NULL, a number, relative directories below,
\* at and outside the folder of the container, an absolute directory, bytes, and
\* a JsonData holding a string
SuggestedInputs ==
    {NullValue,
     InfoValue("int", <<"12345">>, FALSE),
     InfoValue("str", <<"sub", "/", "media">>, FALSE),
     InfoValue("str", <<"media">>, FALSE),
     InfoValue("str", <<"..", "/", "other">>, FALSE),
     InfoValue("str", <<"/", "data", "/", "sub", "/", "media">>, FALSE),
     InfoValue("bytes", <<"sub">>, FALSE),
     InfoValue("str", <<"media">>, TRUE)}

\* the argument of initialize_base_path and of the base_path setter
ExplicitInputs ==
    {Nothing,
     Some(Path(<<"sub">>)),
     Some(Path(<<"/", "data", "/", "sub", "/", "media">>)),
     Some(Path(<<"/", "other">>))}

\* the paths handed to dump
PathInputs ==
    {Path(<<"sub", "/", "a.jpg">>),
     Path(<<"a.jpg">>),
     Path(<<"sub">>),
     Path(<<"/", "data", "/", "sub", "/", "a.jpg">>),
     Path(<<"/", "data", "/", "sub", "/", "media", "/", "..", "/", "a.jpg">>),
     Path(<<"/", "data", "/", "a.jpg">>),
     Path(<<"/", "other", "/", "a.jpg">>)}

\* the strings handed to load: stored forms, an absolute string, a string that
\* climbs out, the empty string, one that is not normalised
StoredInputs ==
    {<<"a.jpg">>,
     <<".">>,
     <<>>,
     <<"/", "other", "/", "a.jpg">>,
     <<"..", "/", "a.jpg">>,
     <<"media", "/", "/", ".", "/", "a.jpg">>}

----
\* The path manager as one value, threaded through the steps of a call

PathWorld == [_base_path |-> _base_path, exc |-> NoExc, ret |-> Nothing]

Return(w, value) == [w EXCEPT !.ret = value]

\* WebtoonPathManager.file_base_path
file_base_path == IF in_memory THEN cwd ELSE parent(path)

\* WebtoonPathManager.suggested_base_path: Nothing, or the path of a str or bytes
\* (a JsonData is loaded first: type and text are those of what it holds)
suggested_base_path ==
    IF sys_base_directory.type \notin {"str", "bytes"} THEN Nothing
    ELSE Some(Path(sys_base_directory.text))

\* _get_base_path without its test for a base path that is already set
_get_base_path_NoOnceTest(w, explicit) ==
    IF explicit # Nothing THEN Return(w, explicit[1])
    ELSE IF suggested_base_path = Nothing THEN Return(w, file_base_path)
    ELSE IF is_absolute(suggested_base_path[1]) THEN
        IF fallback_base_path THEN Raise(w, "WebtoonPathInitializationError")
        ELSE Return(w, file_base_path)
    ELSE IF ~IsRelativeTo(resolve(suggested_base_path[1]), resolve(file_base_path)) THEN
        IF fallback_base_path THEN Raise(w, "WebtoonPathInitializationError")
        ELSE Return(w, file_base_path)
    ELSE Return(w, suggested_base_path[1])

\* _get_base_path preferring the suggested directory to the explicit one
_get_base_path_SuggestedFirst(w, explicit) ==
    IF w._base_path # Nothing THEN Raise(w, "WebtoonPathInitializationError")
    ELSE IF suggested_base_path = Nothing THEN
        IF explicit # Nothing THEN Return(w, explicit[1]) ELSE Return(w, file_base_path)
    ELSE IF is_absolute(suggested_base_path[1]) THEN
        IF fallback_base_path THEN Raise(w, "WebtoonPathInitializationError")
        ELSE Return(w, file_base_path)
    ELSE IF ~IsRelativeTo(resolve(suggested_base_path[1]), resolve(file_base_path)) THEN
        IF fallback_base_path THEN Raise(w, "WebtoonPathInitializationError")
        ELSE Return(w, file_base_path)
    ELSE Return(w, suggested_base_path[1])

\* WebtoonPathManager._get_base_path
_get_base_path(w, explicit) ==
    IF w._base_path # Nothing THEN Raise(w, "WebtoonPathInitializationError")
    ELSE IF explicit # Nothing THEN Return(w, explicit[1])
    ELSE IF suggested_base_path = Nothing THEN Return(w, file_base_path)
    ELSE IF is_absolute(suggested_base_path[1]) THEN
        IF fallback_base_path THEN Raise(w, "WebtoonPathInitializationError")
        ELSE Return(w, file_base_path)
    ELSE IF ~IsRelativeTo(resolve(suggested_base_path[1]), resolve(file_base_path)) THEN
        IF fallback_base_path THEN Raise(w, "WebtoonPathInitializationError")
        ELSE Return(w, file_base_path)
    ELSE Return(w, suggested_base_path[1])

\* WebtoonPathManager.initialize_base_path
initialize_base_path(w, explicit) ==
    LET got == _get_base_path(w, explicit)
    IN  IF got.exc # NoExc THEN got
        ELSE [got EXCEPT !._base_path = Some(resolve(got.ret)), !.ret = resolve(got.ret)]

\* the base_path getter without its self-contained test
base_path_NoSelfContainedTest(w) ==
    IF w._base_path = Nothing THEN
        IF auto_initialize_base_path THEN initialize_base_path(w, Nothing)
        ELSE Raise(w, "WebtoonPathInitializationError")
    ELSE Return(w, w._base_path[1])

\* WebtoonPathManager.base_path (getter)
base_path(w) ==
    IF self_contained THEN Raise(w, "WebtoonPathError")
    ELSE IF w._base_path = Nothing THEN
        IF auto_initialize_base_path THEN initialize_base_path(w, Nothing)
        ELSE Raise(w, "WebtoonPathInitializationError")
    ELSE Return(w, w._base_path[1])

\* WebtoonPathManager.base_path (setter)
set_base_path(w, explicit) == initialize_base_path(w, explicit)

\* _dump_path without its test for an absolute path
_dump_path_NoAbsoluteTest(w, p) ==
    LET b == base_path(w)
    IN  IF b.exc # NoExc THEN b
        ELSE IF ~IsRelativeTo(resolve(p), b.ret) THEN Raise(b, "ValueError")
        ELSE Return(b, relative_to(resolve(p), b.ret))

\* _dump_path taking a relative path from the base directory
_dump_path_FromBase(w, p) ==
    IF is_absolute(p) /\ ~convert_absolute THEN Raise(w, "WebtoonPathError")
    ELSE LET b == base_path(w)
         IN  IF b.exc # NoExc THEN b
             ELSE LET r == [absolute |-> TRUE, parts |-> Collapse(<<>>, Join(b.ret, p).parts)]
                  IN  IF ~IsRelativeTo(r, b.ret) THEN Raise(b, "ValueError")
                      ELSE Return(b, relative_to(r, b.ret))

\* WebtoonPathManager._dump_path: path.resolve() is evaluated before base_path
_dump_path(w, p) ==
    IF is_absolute(p) /\ ~convert_absolute THEN Raise(w, "WebtoonPathError")
    ELSE LET b == base_path(w)
         IN  IF b.exc # NoExc THEN b
             ELSE IF ~IsRelativeTo(resolve(p), b.ret) THEN Raise(b, "ValueError")
             ELSE Return(b, relative_to(resolve(p), b.ret))

\* WebtoonPathManager.dump_str
dump_str(w, p) ==
    LET d == _dump_path(w, p)
    IN  IF d.exc # NoExc THEN d ELSE Return(d, str(d.ret))

\* WebtoonPathManager.dump: None for None
dump(w, p) ==
    IF p = Nothing THEN Return(w, Nothing)
    ELSE LET d == dump_str(w, p[1])
         IN  IF d.exc # NoExc THEN d ELSE Return(d, Some(d.ret))

\* load_str without its test for an absolute string
load_str_NoAbsoluteTest(w, raw_path) ==
    LET b == base_path(w)
    IN  IF b.exc # NoExc THEN b ELSE Return(b, Join(b.ret, Path(raw_path)))

\* WebtoonPathManager.load_str
load_str(w, raw_path) ==
    IF is_absolute(Path(raw_path)) THEN Raise(w, "WebtoonPathError")
    ELSE LET b == base_path(w)
         IN  IF b.exc # NoExc THEN b ELSE Return(b, Join(b.ret, Path(raw_path)))

\* WebtoonPathManager.load: None for None
load(w, raw_path) ==
    IF raw_path = Nothing THEN Return(w, Nothing)
    ELSE LET l == load_str(w, raw_path[1])
         IN  IF l.exc # NoExc THEN l ELSE Return(l, Some(l.ret))

----
\* Python values, as the value conversion sees them: None, bool, int, float,
\* str, bytes (texts are sequences of tokens), list and dict (what a JsonData
\* holds), pathlib.Path and JsonData

PyNone == [type |-> "NoneType"]

PyBool(atom) == [type |-> "bool", atom |-> atom]

PyInt(atom) == [type |-> "int", atom |-> atom]

PyFloat(atom) == [type |-> "float", atom |-> atom]

PyStr(text) == [type |-> "str", text |-> text]

PyBytes(text) == [type |-> "bytes", text |-> text]

PyList(items) == [type |-> "list", items |-> items]

\* a dict, as the sequence of its items; each item is <<key, value>> with a
\* str key
PyDict(items) == [type |-> "dict", items |-> items]

PyPath(p) == [type |-> "Path", path |-> p]

\* the literals of the inputs
IntAtoms == {"0", "1", "-7"}

FloatAtoms == {"1.5", "0.0"}

StrAtoms == {"a", "k", ""}

\* a JSON string literal: the text between double quotes
Quote(atom) == "\"" \o atom \o "\""

\* json.JSONEncoder(ensure_ascii=False, separators=(",", ":")).encode, on
\* data made of None, bool, int, float, one-token str, list and dict
RECURSIVE _json_dump(_)
RECURSIVE EncodeItems(_)
RECURSIVE EncodeMembers(_)
EncodeItems(items) ==
    IF items = <<>> THEN <<>>
    ELSE _json_dump(Head(items))
         \o (IF Len(items) > 1 THEN <<",">> ELSE <<>>)
         \o EncodeItems(Tail(items))

EncodeMembers(items) ==
    IF items = <<>> THEN <<>>
    ELSE <<Quote(Head(items)[1].text[1]), ":">> \o _json_dump(Head(items)[2])
         \o (IF Len(items) > 1 THEN <<",">> ELSE <<>>)
         \o EncodeMembers(Tail(items))

_json_dump(data) ==
    CASE data.type = "NoneType" -> <<"null">>
      [] data.type = "bool" -> <<IF data.atom = "True" THEN "true" ELSE "false">>
      [] data.type \in {"int", "float"} -> <<data.atom>>
      [] data.type = "str" -> <<Quote(data.text[1])>>
      [] data.type = "list" -> <<"[">> \o EncodeItems(data.items) \o <<"]">>
      [] data.type = "dict" -> <<"{">> \o EncodeMembers(data.items) \o <<"}">>

\* json.loads: a recursive-descent parse of the tokens; whitespace between
\* tokens is skipped. A parse is [ok, value, rest].
ParseError == [ok |-> FALSE, value |-> PyNone, rest |-> <<>>]

Parsed(value, rest) == [ok |-> TRUE, value |-> value, rest |-> rest]

RECURSIVE SkipWhitespace(_)
SkipWhitespace(s) ==
    IF s # <<>> /\ Head(s) = " " THEN SkipWhitespace(Tail(s)) ELSE s

RECURSIVE ParseValue(_)
RECURSIVE ParseItems(_, _)
RECURSIVE ParseMembers(_, _)
\* the items of an array after "[" or after a comma, up to "]"
ParseItems(s, items) ==
    LET t == SkipWhitespace(s)
    IN  IF t # <<>> /\ Head(t) = "]" /\ items = <<>> THEN Parsed(PyList(items), Tail(t))
        ELSE LET v == ParseValue(t)
                 u == SkipWhitespace(v.rest)
             IN  IF ~v.ok \/ u = <<>> THEN ParseError
                 ELSE IF Head(u) = "," THEN ParseItems(Tail(u), Append(items, v.value))
                 ELSE IF Head(u) = "]" THEN Parsed(PyList(Append(items, v.value)), Tail(u))
                 ELSE ParseError

\* the members of an object after "{" or after a comma, up to "}"
ParseMembers(s, items) ==
    LET t == SkipWhitespace(s)
    IN  IF t # <<>> /\ Head(t) = "}" /\ items = <<>> THEN Parsed(PyDict(items), Tail(t))
        ELSE IF t = <<>> \/ ~(\E a \in StrAtoms : Quote(a) = Head(t)) THEN ParseError
        ELSE LET key == PyStr(<<CHOOSE a \in StrAtoms : Quote(a) = Head(t)>>)
                 c == SkipWhitespace(Tail(t))
             IN  IF c = <<>> \/ Head(c) # ":" THEN ParseError
                 ELSE LET v == ParseValue(Tail(c))
                          u == SkipWhitespace(v.rest)
                      IN  IF ~v.ok \/ u = <<>> THEN ParseError
                          ELSE IF Head(u) = ","
                          THEN ParseMembers(Tail(u), Append(items, <<key, v.value>>))
                          ELSE IF Head(u) = "}"
                          THEN Parsed(PyDict(Append(items, <<key, v.value>>)), Tail(u))
                          ELSE ParseError

ParseValue(s) ==
    LET t == SkipWhitespace(s)
    IN  IF t = <<>> THEN ParseError
        ELSE CASE Head(t) = "null" -> Parsed(PyNone, Tail(t))
               [] Head(t) = "true" -> Parsed(PyBool("True"), Tail(t))
               [] Head(t) = "false" -> Parsed(PyBool("False"), Tail(t))
               [] Head(t) \in IntAtoms -> Parsed(PyInt(Head(t)), Tail(t))
               [] Head(t) \in FloatAtoms -> Parsed(PyFloat(Head(t)), Tail(t))
               [] \E a \in StrAtoms : Quote(a) = Head(t) ->
                    Parsed(PyStr(<<CHOOSE a \in StrAtoms : Quote(a) = Head(t)>>), Tail(t))
               [] Head(t) = "[" -> ParseItems(Tail(t), <<>>)
               [] Head(t) = "{" -> ParseMembers(Tail(t), <<>>)
               [] OTHER -> ParseError

\* json.loads: the value, or json.JSONDecodeError
json_loads(w, text) ==
    LET r == ParseValue(text)
    IN  IF r.ok /\ SkipWhitespace(r.rest) = <<>> THEN Return(w, r.value)
        ELSE Raise(w, "JSONDecodeError")

\* JsonData(data=..., raw=..., conversion=...), of which at most one of data
\* and raw is given
JsonData(data, raw, conversion) ==
    [type |-> "JsonData", _data |-> data, _raw |-> raw, conversion |-> conversion]

\* JsonData.from_raw: the conversion is the default one
JsonData_from_raw(raw) == JsonData(PyNone, raw, "json")

\* JsonData.dump (store_raw unset)
JsonData_dump(j) ==
    IF j._raw.type = "NoneType" THEN PyStr(_json_dump(j._data)) ELSE j._raw

\* JsonData.load (store_data unset)
JsonData_load(w, j) ==
    IF j._raw.type = "NoneType" THEN Return(w, j._data) ELSE json_loads(w, j._raw.text)

\* the number a bool, an int or a float stands for, in halves
Halves(v) ==
    CASE v.atom \in {"False", "0", "0.0"} -> 0
      [] v.atom \in {"True", "1"} -> 2
      [] v.atom = "1.5" -> 3
      [] v.atom = "-7" -> -14

\* Python's == on what json.loads returns and on the data a JsonData holds:
\* numbers by value whatever their type, a dict whatever the order of its keys
RECURSIVE PyEq(_, _)
PyEq(a, b) ==
    CASE a.type \in {"bool", "int", "float"} ->
           b.type \in {"bool", "int", "float"} /\ Halves(a) = Halves(b)
      [] a.type = "list" ->
           /\ b.type = "list"
           /\ Len(a.items) = Len(b.items)
           /\ \A i \in DOMAIN a.items : PyEq(a.items[i], b.items[i])
      [] a.type = "dict" ->
           /\ b.type = "dict"
           /\ Len(a.items) = Len(b.items)
           /\ \A i \in DOMAIN a.items : \E j \in DOMAIN b.items :
                /\ a.items[i][1] = b.items[j][1]
                /\ PyEq(a.items[i][2], b.items[j][2])
      [] OTHER -> a = b

\* The JsonData object of the program as one value, threaded through the steps
\* of a call
JsonWorld == [payload |-> payload, exc |-> NoExc, ret |-> Nothing]

\* JsonData.__init__: data and raw are not both given
JsonData___init__(w, data, raw, conversion) ==
    IF data.type # "NoneType" /\ raw.type # "NoneType" THEN Raise(w, "ValueError")
    ELSE [w EXCEPT !.payload = Some(JsonData(data, raw, conversion))]

\* JsonData.loaded
loaded(j) == j._raw.type = "NoneType"

\* JsonData.stored
stored(j) == IF j._raw.type = "NoneType" THEN j._data ELSE j._raw

\* JsonData.dump(store_raw=...) that stores the text and keeps the data
JsonData_dump_KeepData(w, store_raw) ==
    LET j == w.payload[1]
    IN  IF j._raw.type = "NoneType"
        THEN LET result == PyStr(_json_dump(j._data))
             IN  Return(IF store_raw
                        THEN [w EXCEPT !.payload = Some([j EXCEPT !._raw = result])]
                        ELSE w,
                        result)
        ELSE Return(w, j._raw)

\* JsonData.dump(store_raw=...) of the object of the world
JsonData_dump_store_raw(w, store_raw) ==
    LET j == w.payload[1]
    IN  IF j._raw.type = "NoneType"
        THEN LET result == PyStr(_json_dump(j._data))
             IN  Return(IF store_raw
                        THEN [w EXCEPT !.payload = Some([j EXCEPT !._raw = result,
                                                                   !._data = PyNone])]
                        ELSE w,
                        result)
        ELSE Return(w, j._raw)

\* JsonData.load(store_data=...) of the object of the world (a copy is equal
\* to what it copies)
JsonData_load_store_data(w, store_data) ==
    LET j == w.payload[1]
    IN  IF j._raw.type = "NoneType" THEN Return(w, j._data)
        ELSE LET result == json_loads(w, j._raw.text)
             IN  IF result.exc # NoExc THEN result
                 ELSE IF store_data
                 THEN [result EXCEPT !.payload = Some([j EXCEPT !._raw = PyNone,
                                                                !._data = result.ret])]
                 ELSE result

\* JsonData.__eq__: the shortcut compares self.stored with self.stored
JsonData___eq__(w, self, other) ==
    IF ~loaded(self) /\ ~loaded(other) /\ stored(self) = stored(self) THEN Return(w, TRUE)
    ELSE LET a == JsonData_load(w, self)
             b == JsonData_load(w, other)
         IN  IF a.exc # NoExc THEN a
             ELSE IF b.exc # NoExc THEN b
             ELSE Return(w, PyEq(a.ret, b.ret))

----
\* WebtoonValue: the value conversion of an open container. A conversion is
\* None or one of the tags of ConversionType.

\* _get_conversion with the bool arm after the test of primitive_conversion
_get_conversion_BoolAsPrimitive(w, value, primitive_conversion) ==
    CASE value.type = "NoneType" -> Return(w, "null")
      [] value.type = "JsonData" /\ value.conversion \in {"json", "jsonb"} -> Return(w, "json")
      [] value.type = "Path" -> Return(w, "path")
      [] OTHER ->
           IF ~primitive_conversion THEN Return(w, None)
           ELSE IF value.type \in {"bool", "str", "bytes", "int", "float"}
           THEN Return(w, value.type)
           ELSE Raise(w, "ValueError")

\* _get_conversion whose last arm returns None instead of raising
_get_conversion_NoRaise(w, value, primitive_conversion) ==
    CASE value.type = "NoneType" -> Return(w, "null")
      [] value.type = "JsonData" /\ value.conversion \in {"json", "jsonb"} -> Return(w, "json")
      [] value.type = "Path" -> Return(w, "path")
      [] value.type = "bool" -> Return(w, "bool")
      [] OTHER ->
           IF primitive_conversion /\ value.type \in {"str", "bytes", "int", "float"}
           THEN Return(w, value.type)
           ELSE Return(w, None)

\* WebtoonValue._get_conversion: the arms of the match, in their order
_get_conversion(w, value, primitive_conversion) ==
    CASE value.type = "NoneType" -> Return(w, "null")
      [] value.type = "JsonData" /\ value.conversion = "json" -> Return(w, "json")
      [] value.type = "JsonData" /\ value.conversion = "jsonb" -> Return(w, "json")
      [] value.type = "Path" -> Return(w, "path")
      [] value.type = "bool" -> Return(w, "bool")
      [] OTHER ->
           IF ~primitive_conversion THEN Return(w, None)
           ELSE IF value.type \in {"str", "bytes", "int", "float"} THEN Return(w, value.type)
           ELSE Raise(w, "ValueError")

\* WebtoonValue._get_query: the arms of the match, in their order
_get_query(w, conversion, cast_primitive) ==
    CASE conversion \in {None, "null", "path"} -> Return(w, "?")
      [] conversion = "json" -> Return(w, "json(?)")
      [] conversion = "jsonb" -> Return(w, "jsonb(?)")
      [] OTHER ->
           IF ~cast_primitive THEN Return(w, "?")
           ELSE CASE conversion = "str" -> Return(w, "CAST(? AS TEXT)")
                  [] conversion = "bytes" -> Return(w, "CAST(? AS BLOB)")
                  [] conversion = "int" -> Return(w, "CAST(? AS INTEGER)")
                  [] conversion = "float" -> Return(w, "CAST(? AS REAL)")
                  [] conversion = "bool" -> Return(w, "CAST(? AS INTEGER)")
                  [] OTHER -> Raise(w, "ValueError")

\* WebtoonValue._dump: a JsonData as its text, a Path as the path manager
\* stores it, anything else as it is
_dump(w, value) ==
    IF value.type = "JsonData" THEN Return(w, JsonData_dump(value))
    ELSE IF value.type = "Path"
    THEN LET d == dump_str(w, value.path)
         IN  IF d.exc # NoExc THEN d ELSE Return(d, PyStr(d.ret))
    ELSE Return(w, value)

\* dump_conversion_query_value that casts under an inferred conversion too
dump_conversion_query_value_CastInferred(w, value, conversion, primitive_conversion) ==
    LET c == IF conversion = None
             THEN _get_conversion(w, value, primitive_conversion)
             ELSE Return(w, conversion)
        q == _get_query(c, c.ret, TRUE)
        d == _dump(q, value)
    IN  IF c.exc # NoExc THEN c
        ELSE IF q.exc # NoExc THEN q
        ELSE IF d.exc # NoExc THEN d
        ELSE Return(d, [conversion |-> c.ret, query |-> q.ret, value |-> d.ret])

\* WebtoonValue.dump_conversion_query_value: (conversion, query, primitive)
dump_conversion_query_value(w, value, conversion, primitive_conversion) ==
    LET c == IF conversion = None
             THEN _get_conversion(w, value, primitive_conversion)
             ELSE Return(w, conversion)
        q == _get_query(c, c.ret, conversion # None)
        d == _dump(q, value)
    IN  IF c.exc # NoExc THEN c
        ELSE IF q.exc # NoExc THEN q
        ELSE IF d.exc # NoExc THEN d
        ELSE Return(d, [conversion |-> c.ret, query |-> q.ret, value |-> d.ret])

\* bool(original_value) of an int or a bool
bool(value) ==
    IF value.type = "bool" THEN value
    ELSE PyBool(IF value.atom = "0" THEN "False" ELSE "True")

\* WebtoonValue.load: the arms of the match, in their order (a bool is an int)
WebtoonValue_load(w, conversion, original_value) ==
    CASE conversion = None -> Return(w, original_value)
      [] conversion = "null" -> Return(w, PyNone)
      [] original_value.type = "NoneType" -> Return(w, PyNone)
      [] conversion \in {"json", "jsonb"} /\ original_value.type \in {"str", "bytes"} ->
           Return(w, JsonData_from_raw(original_value))
      [] conversion = "bool" /\ original_value.type \in {"int", "bool"} ->
           Return(w, bool(original_value))
      [] conversion = "str" /\ original_value.type = "str" -> Return(w, original_value)
      [] conversion = "int" /\ original_value.type \in {"int", "bool"} ->
           Return(w, original_value)
      [] conversion = "float" /\ original_value.type = "float" -> Return(w, original_value)
      [] conversion = "bytes" /\ original_value.type = "bytes" -> Return(w, original_value)
      [] OTHER -> Raise(w, "ValueError")

----
\* The functions of wbtn.conversion, which the media manager calls: they are
\* the methods of WebtoonValue without the path manager, and their matches
\* have their own order

\* the default of the conversion parameter of get_conversion_query_value
_NOTSET == "_NOTSET"

\* conversion._dump_bytes_value and the encoding of dump_bytes_value: the bytes
\* written to a file for a value
dump_bytes_value(w, value) ==
    CASE value.type = "NoneType" -> Return(w, PyBytes(<<>>))
      [] value.type = "bool" ->
           Return(w, PyBytes(IF value.atom = "True" THEN <<"1">> ELSE <<"0">>))
      [] value.type = "JsonData" -> Return(w, PyBytes(JsonData_dump(value).text))
      [] value.type = "str" -> Return(w, PyBytes(value.text))
      [] value.type = "bytes" -> Return(w, value)
      [] value.type \in {"int", "float"} -> Return(w, PyBytes(<<value.atom>>))
      [] OTHER -> Raise(w, "ValueError")

\* conversion.load_value: the arms of the match, in their order
load_value(w, conversion, original_value, check_primitive_conversion) ==
    CASE conversion = None -> Return(w, original_value)
      [] conversion = "null" -> Return(w, PyNone)
      [] conversion \in {"json", "jsonb"} /\ original_value.type \in {"str", "bytes"} ->
           Return(w, JsonData_from_raw(original_value))
      [] conversion = "bool" /\ original_value.type \in {"int", "bool"} ->
           Return(w, bool(original_value))
      [] OTHER ->
           IF ~check_primitive_conversion THEN Return(w, original_value)
           ELSE IF \/ conversion = "str" /\ original_value.type = "str"
                   \/ conversion = "int" /\ original_value.type \in {"int", "bool"}
                   \/ conversion = "float" /\ original_value.type = "float"
                   \/ conversion = "bytes" /\ original_value.type = "bytes"
           THEN Return(w, original_value)
           ELSE Raise(w, "ValueError")

\* conversion._get_conversion: the arms of the match, in their order
conversion__get_conversion(w, value, primitive_conversion) ==
    CASE value.type = "JsonData" /\ value.conversion = "json" -> Return(w, "json")
      [] value.type = "JsonData" /\ value.conversion = "jsonb" -> Return(w, "json")
      [] value.type = "bool" -> Return(w, "bool")
      [] value.type = "NoneType" -> Return(w, "null")
      [] OTHER ->
           IF ~primitive_conversion THEN Return(w, None)
           ELSE IF value.type \in {"str", "bytes", "int", "float"} THEN Return(w, value.type)
           ELSE Raise(w, "ValueError")

\* conversion._get_query: the arms of the match, in their order
conversion__get_query(w, conversion, cast_primitive) ==
    CASE conversion = None -> Return(w, "?")
      [] conversion = "json" -> Return(w, "json(?)")
      [] conversion = "jsonb" -> Return(w, "jsonb(?)")
      [] conversion = "null" -> Return(w, "?")
      [] OTHER ->
           IF ~cast_primitive THEN Return(w, "?")
           ELSE CASE conversion = "str" -> Return(w, "CAST(? AS TEXT)")
                  [] conversion = "bytes" -> Return(w, "CAST(? AS BLOB)")
                  [] conversion = "int" -> Return(w, "CAST(? AS INTEGER)")
                  [] conversion = "float" -> Return(w, "CAST(? AS REAL)")
                  [] conversion = "bool" -> Return(w, "CAST(? AS INTEGER)")
                  [] OTHER -> Raise(w, "ValueError")

\* conversion._dump_value: a JsonData as its text, anything else as it is
_dump_value(w, value) ==
    IF value.type = "JsonData" THEN Return(w, JsonData_dump(value)) ELSE Return(w, value)

\* conversion.get_conversion_query_value: (conversion, query, primitive); the
\* primitive is cast when the conversion is given
get_conversion_query_value(w, value, conversion, primitive_conversion) ==
    LET not_set == conversion = _NOTSET
        c == IF not_set
             THEN conversion__get_conversion(w, value, primitive_conversion)
             ELSE Return(w, conversion)
        q == conversion__get_query(c, c.ret, ~not_set)
        d == _dump_value(q, value)
    IN  IF c.exc # NoExc THEN c
        ELSE IF q.exc # NoExc THEN q
        ELSE IF d.exc # NoExc THEN d
        ELSE Return(d, [conversion |-> c.ret, query |-> q.ret, value |-> d.ret])

\* conversion.get_primitive_conversion
get_primitive_conversion(w, value) == conversion__get_conversion(w, value, TRUE)

----
\* The files outside the container, as the media manager uses them through
\* pathlib: directories and files by their resolved path

Dir(p) == [kind |-> "dir", path |-> p]

File(p, content) == [kind |-> "file", path |-> p, content |-> content]

\* the directories in which the process may neither create nor delete a file
ReadOnlyDirs == {Path(<<"/", "data", "/", "ro">>)}

IsDir(w, p) == Dir(p) \in w.disk

IsFile(w, p) == \E f \in w.disk : f.kind = "file" /\ f.path = p

RECURSIVE Ancestors(_)
\* a directory and the directories above it
Ancestors(p) == IF p.parts = <<>> THEN {p} ELSE {p} \cup Ancestors(parent(p))

\* Path.mkdir(parents=True, exist_ok=True)
mkdir(w, p) ==
    LET d == resolve(p)
        missing == {a \in Ancestors(d) : ~IsDir(w, a)}
    IN  IF \E a \in Ancestors(d) : IsFile(w, a) THEN Raise(w, "FileExistsError")
        ELSE IF \E a \in missing : parent(a) \in ReadOnlyDirs THEN Raise(w, "PermissionError")
        ELSE [w EXCEPT !.disk = @ \cup {Dir(a) : a \in missing}]

\* Path.write_bytes: the file is created, or its content replaced
write_bytes(w, p, content) ==
    LET t == resolve(p)
    IN  IF IsDir(w, t) THEN Raise(w, "IsADirectoryError")
        ELSE IF ~IsDir(w, parent(t)) THEN Raise(w, "FileNotFoundError")
        ELSE IF ~IsFile(w, t) /\ parent(t) \in ReadOnlyDirs THEN Raise(w, "PermissionError")
        ELSE [w EXCEPT !.disk = {f \in @ : f.path # t} \cup {File(t, content)}]

\* Path.unlink
unlink(w, p) ==
    LET t == resolve(p)
    IN  IF IsDir(w, t) THEN Raise(w, "IsADirectoryError")
        ELSE IF ~IsFile(w, t) THEN Raise(w, "FileNotFoundError")
        ELSE IF parent(t) \in ReadOnlyDirs THEN Raise(w, "PermissionError")
        ELSE [w EXCEPT !.disk = {f \in @ : f.path # t}]

----
\* The media table and its manager (WebtoonMediaManger), and the handle of a
\* row (WebtoonMedia). The columns state, media_type and name, which every
\* call hands through unchanged, and added_at are left out of a row.

\* the value of an expression, taken once: The({e(x) : x \in {v}}) is e(v)
The(S) == CHOOSE x \in S : TRUE

\* the rows of the episodes table: the episode a media row refers to is there
Episodes == {1}

\* a row of the media table
MediaRow(id, episode_no, media_no, purpose, conversion, stored_path, data) ==
    [id |-> id, episode_no |-> episode_no, media_no |-> media_no, purpose |-> purpose,
     conversion |-> conversion, path |-> stored_path, data |-> data]

\* WebtoonMediaData, with the fields of a row
WebtoonMediaData(media_id, episode_no, media_no, purpose, conversion, p, data) ==
    [media_id |-> media_id, episode_no |-> episode_no, media_no |-> media_no,
     purpose |-> purpose, conversion |-> conversion, path |-> p, data |-> data]

\* the id of a new row: INTEGER PRIMARY KEY, one more than the largest
NextId(rows) ==
    IF rows = {} THEN 1
    ELSE (CHOOSE i \in {r.id : r \in rows} : \A r \in rows : r.id <= i) + 1

\* what the column holds for the bound value under the query of the INSERT:
\* NULL stays NULL, a bool is bound as an integer, json(?) stores the minified
\* text and jsonb(?) its binary form; a cast is applied to NULL only
SqlExpr(query, v) ==
    CASE v.type = "NoneType" -> PyNone
      [] query = "?" /\ v.type = "bool" -> PyInt(IF v.atom = "True" THEN "1" ELSE "0")
      [] query = "?" /\ v.type # "bool" -> v
      [] query = "json(?)" -> PyStr(SelectSeq(v.text, LAMBDA t : t # " "))
      [] query = "jsonb(?)" -> PyBytes(SelectSeq(v.text, LAMBDA t : t # " "))

\* whether json(?) and jsonb(?) take the bound value
WellFormed(query, v) ==
    \/ query \notin {"json(?)", "jsonb(?)"}
    \/ v.type = "NoneType"
    \/ LET r == ParseValue(v.text) IN r.ok /\ SkipWhitespace(r.rest) = <<>>

\* INSERT INTO media ... RETURNING id, under the constraints of the table
Insert(w, episode_no, media_no, purpose, conversion, stored_path, query, data) ==
    IF ~WellFormed(query, data) THEN Raise(w, "OperationalError")
    ELSE IF \E r \in w.media :
                r.episode_no = episode_no /\ r.media_no = media_no /\ r.purpose = purpose
    THEN Raise(w, "IntegrityError")
    ELSE IF episode_no \notin Episodes THEN Raise(w, "IntegrityError")
    ELSE [w EXCEPT !.media = @ \cup {MediaRow(NextId(@), episode_no, media_no, purpose,
                                              conversion, stored_path,
                                              SqlExpr(query, data))},
                   !.ret = NextId(w.media)]

\* a WebtoonMedia object
WebtoonMedia(media_id, webtoon, m) ==
    [_media_id |-> media_id, _webtoon |-> webtoon, _media |-> m]

\* The media manager with its table, the files, the path manager and one
\* handle as one value, threaded through the steps of a call
MediaWorld ==
    [_base_path |-> _base_path, media |-> media, disk |-> disk, handle |-> handle,
     exc |-> NoExc, ret |-> Nothing]

\* WebtoonMedia.__init__ that takes an id and a record together
WebtoonMedia___init___NoExclusionTest(w, media_id, webtoon, m) ==
    IF m = Nothing /\ media_id = Nothing THEN Raise(w, "ValueError")
    ELSE IF m = Nothing /\ ((media_id = Nothing) # (~webtoon)) THEN Raise(w, "ValueError")
    ELSE [w EXCEPT !.handle = Some(WebtoonMedia(media_id, webtoon, m))]

\* WebtoonMedia.__init__: exactly one of media and media_id, and a media_id
\* with its webtoon (webtoon: whether one is given)
WebtoonMedia___init__(w, media_id, webtoon, m) ==
    IF (m = Nothing) = (media_id = Nothing) THEN Raise(w, "ValueError")
    ELSE IF m = Nothing /\ ((media_id = Nothing) # (~webtoon)) THEN Raise(w, "ValueError")
    ELSE [w EXCEPT !.handle = Some(WebtoonMedia(media_id, webtoon, m))]

\* WebtoonMedia.from_media_id
from_media_id(w, media_id, webtoon) == WebtoonMedia___init__(w, Some(media_id), webtoon, Nothing)

\* WebtoonMedia.from_media
from_media(w, m) == WebtoonMedia___init__(w, Nothing, FALSE, Some(m))

\* WebtoonMediaManger._load: the row with this id as a WebtoonMediaData
\* (Webtoon.execute returns the row, or None when there is none); a stored
\* path that is not empty goes through the path manager
_load(w, media_id) ==
    IF \A r \in w.media : r.id # media_id THEN Raise(w, "ValueError")
    ELSE The({The({IF p.exc # NoExc THEN p
                   ELSE The({IF d.exc # NoExc THEN d
                             ELSE Return(d, WebtoonMediaData(r.id, r.episode_no, r.media_no,
                                                             r.purpose, r.conversion,
                                                             p.ret, d.ret)) :
                             d \in {load_value(p, r.conversion, r.data, FALSE)}}) :
                   p \in {IF r.path = Nothing \/ r.path[1] = <<>> THEN Return(w, r.path)
                          ELSE load(w, r.path)}}) :
              r \in {x \in w.media : x.id = media_id}})

\* WebtoonMedia.load(store_media=...): the record the handle holds, or the one
\* of the row; None has no attribute media
WebtoonMedia_load(w, store_media) ==
    LET h == w.handle[1]
    IN  IF h._media_id = Nothing THEN Return(w, h._media[1])
        ELSE IF ~h._webtoon THEN Raise(w, "AttributeError")
        ELSE The({IF m.exc # NoExc THEN m
                  ELSE IF store_media
                  THEN [m EXCEPT !.handle = Some([h EXCEPT !._media_id = Nothing,
                                                           !._media = Some(m.ret)])]
                  ELSE m :
                  m \in {_load(w, h._media_id[1])}})

\* WebtoonMedia.media_id(store_id=...)
WebtoonMedia_media_id(w, store_id) ==
    LET h == w.handle[1]
    IN  IF h._media_id = Nothing
        THEN IF store_id
             THEN [w EXCEPT !.handle = Some([h EXCEPT !._media_id = Some(h._media[1].media_id),
                                                      !._media = Nothing]),
                            !.ret = h._media[1].media_id]
             ELSE Return(w, h._media[1].media_id)
        ELSE Return(w, h._media_id[1])

\* WebtoonMedia.loaded
WebtoonMedia_loaded(h) == h._media_id = Nothing

\* WebtoonMediaManger.add: a Path is stored as the path manager dumps it, with
\* no data; a value is stored under the conversion inferred for it, and takes
\* no conversion; the handle of the new row is returned
add(w, path_or_data, episode_no, media_no, purpose, conversion) ==
    LET isPath == path_or_data.type = "Path"
        data == IF isPath THEN PyNone ELSE path_or_data
        given == IF conversion # None THEN conversion ELSE _NOTSET
    IN  The({IF p.exc # NoExc THEN p
             ELSE IF ~isPath /\ conversion # None THEN Raise(p, "ValueError")
             ELSE The({IF c.exc # NoExc THEN c
                       ELSE The({IF i.exc # NoExc THEN i
                                 ELSE The({Return(h, h.handle[1]) :
                                           h \in {from_media_id(i, i.ret, TRUE)}}) :
                                 i \in {Insert(c, episode_no, media_no, purpose,
                                               c.ret.conversion, p.ret, c.ret.query,
                                               c.ret.value)}}) :
                       c \in {get_conversion_query_value(p, data, given, FALSE)}}) :
             p \in {IF isPath THEN dump(w, Some(path_or_data.path))
                    ELSE Return(w, Nothing)}})

\* remove that deletes the file of the row as well
remove_WithFile(w, h) ==
    LET id == WebtoonMedia_media_id([w EXCEPT !.handle = Some(h)], FALSE).ret
    IN  IF \A r \in w.media : r.id # id THEN Raise(w, "KeyError")
        ELSE [w EXCEPT !.media = {r \in @ : r.id # id},
                       !.disk = {f \in @ : \A r \in w.media :
                                    r.id = id /\ r.path # Nothing
                                        => f.path # load(w, r.path).ret[1]}]

\* WebtoonMediaManger.remove: DELETE ... RETURNING TRUE
remove(w, h) ==
    LET id == WebtoonMedia_media_id([w EXCEPT !.handle = Some(h)], FALSE).ret
    IN  IF \A r \in w.media : r.id # id THEN Raise(w, "KeyError")
        ELSE [w EXCEPT !.media = {r \in @ : r.id # id}]

\* add_path_or_data up to the end of its call of add: the directory is made,
\* the file written, and the row added under the conversion given or else the
\* primitive conversion of the data
WriteThenAdd(w, p, data, episode_no, media_no, purpose, conversion, mk) ==
    The({IF m.exc # NoExc THEN m
         ELSE The({IF b.exc # NoExc THEN b
                   ELSE The({IF f.exc # NoExc THEN f
                             ELSE The({IF c.exc # NoExc THEN c
                                       ELSE add(c, PyPath(p), episode_no, media_no,
                                                purpose, c.ret) :
                                       c \in {IF conversion # None
                                              THEN Return(f, conversion)
                                              ELSE get_primitive_conversion(f, data)}}) :
                             f \in {write_bytes(b, p, b.ret)}}) :
                   b \in {dump_bytes_value(m, data)}}) :
         m \in {IF mk THEN mkdir(w, parent(p)) ELSE w}})

\* whether the call got as far as its try statement: the file is written
Written(w, p, data, mk) ==
    The({m.exc = NoExc /\ The({b.exc = NoExc /\ write_bytes(b, p, b.ret).exc = NoExc :
                               b \in {dump_bytes_value(m, data)}}) :
         m \in {IF mk THEN mkdir(w, parent(p)) ELSE w}})

\* WebtoonMediaManger.add_path_or_data: inline in self-contained mode; otherwise
\* the file is written, then the row is added, and when that raises the file
\* is unlinked and the exception raised again, unless unlink raises its own
add_path_or_data(w, p, data, episode_no, media_no, purpose, conversion, mk) ==
    IF self_contained THEN add(w, data, episode_no, media_no, purpose, None)
    ELSE The({IF a.exc = NoExc \/ ~Written(w, p, data, mk) THEN a
              ELSE The({IF u.exc # NoExc THEN u ELSE Raise(u, a.exc) :
                        u \in {unlink([a EXCEPT !.exc = NoExc], p)}}) :
              a \in {WriteThenAdd(w, p, data, episode_no, media_no, purpose,
                                  conversion, mk)}})

\* Path.read_bytes
read_bytes(w, p) ==
    LET t == resolve(p)
    IN  IF IsDir(w, t) THEN Raise(w, "IsADirectoryError")
        ELSE IF ~IsFile(w, t) THEN Raise(w, "FileNotFoundError")
        ELSE Return(w, The({f.content : f \in {x \in w.disk : x.kind = "file" /\ x.path = t}}))

\* conversion.load_bytes_value: the value of the bytes of a file under a
\* conversion, the arms of the match in their order; int() and float() take a
\* numeric literal only
load_bytes_value(w, conversion, raw_bytes, primitive_conversion) ==
    CASE conversion = None -> Raise(w, "ValueError")
      [] conversion = "null" -> Return(w, PyNone)
      [] conversion = "str" -> Return(w, PyStr(raw_bytes.text))
      [] conversion = "bytes" -> Return(w, raw_bytes)
      [] conversion = "bool" ->
           Return(w, PyBool(IF raw_bytes.text # <<"0">> /\ raw_bytes.text # <<>>
                            THEN "True" ELSE "False"))
      [] OTHER ->
           IF ~primitive_conversion THEN Return(w, raw_bytes)
           ELSE CASE conversion = "int" ->
                       IF Len(raw_bytes.text) = 1 /\ raw_bytes.text[1] \in IntAtoms
                       THEN Return(w, PyInt(raw_bytes.text[1]))
                       ELSE Raise(w, "ValueError")
                  [] conversion = "float" ->
                       IF Len(raw_bytes.text) = 1 /\ raw_bytes.text[1] \in FloatAtoms
                       THEN Return(w, PyFloat(raw_bytes.text[1]))
                       ELSE IF Len(raw_bytes.text) = 1 /\ raw_bytes.text[1] \in IntAtoms
                       THEN Return(w, PyFloat(raw_bytes.text[1] \o ".0"))
                       ELSE Raise(w, "ValueError")
                  [] OTHER -> Raise(w, "ValueError")

\* UPDATE media SET ... WHERE id == ? RETURNING TRUE, under the constraints of
\* the table: nothing when no row has the id, else the row takes the columns of
\* the record
Update(w, m, conversion, stored_path, query, data) ==
    IF \A r \in w.media : r.id # m.media_id THEN Return(w, Nothing)
    ELSE IF ~WellFormed(query, data) THEN Raise(w, "OperationalError")
    ELSE IF \E r \in w.media :
                /\ r.id # m.media_id
                /\ r.episode_no = m.episode_no
                /\ r.media_no = m.media_no
                /\ r.purpose = m.purpose
    THEN Raise(w, "IntegrityError")
    ELSE IF m.episode_no \notin Episodes THEN Raise(w, "IntegrityError")
    ELSE [w EXCEPT !.media = {r \in @ : r.id # m.media_id}
                                \cup {MediaRow(m.media_id, m.episode_no, m.media_no,
                                               m.purpose, conversion, stored_path,
                                               SqlExpr(query, data))},
                   !.ret = Some(TRUE)]

\* WebtoonMediaManger.set: a record has a conversion exactly when it has a
\* path, and a path without data; the row with the id of the record takes its
\* columns, the conversion of the record or else the one of its data
set(w, m) ==
    IF (m.conversion = None) # (m.path = Nothing) THEN Raise(w, "ValueError")
    ELSE IF m.path # Nothing /\ m.data # PyNone THEN Raise(w, "ValueError")
    ELSE The({IF c.exc # NoExc THEN c
              ELSE The({IF p.exc # NoExc THEN p
                        ELSE The({IF u.exc # NoExc THEN u
                                  ELSE IF u.ret = Nothing THEN Raise(u, "KeyError")
                                  ELSE Return(u, None) :
                                  u \in {Update(p, m,
                                                IF m.conversion # None THEN m.conversion
                                                ELSE c.ret.conversion,
                                                p.ret, c.ret.query, c.ret.value)}}) :
                        p \in {dump(c, m.path)}}) :
              c \in {get_conversion_query_value(w, m.data, _NOTSET, FALSE)}})

\* WebtoonMediaManger.load_data: the data of the record of the handle, or the
\* value of the bytes of its file, which store_data writes back in its place
load_data(w, h, store_data) ==
    The({IF l.exc # NoExc \/ l.ret.path = Nothing
         THEN IF l.exc # NoExc THEN l ELSE Return(l, l.ret.data)
         ELSE The({IF b.exc # NoExc THEN b
                   ELSE The({IF v.exc # NoExc \/ ~store_data THEN v
                             ELSE The({IF s.exc # NoExc THEN s ELSE Return(s, v.ret) :
                                       s \in {set(v, [l.ret EXCEPT !.path = Nothing,
                                                                   !.data = v.ret])}}) :
                             v \in {load_bytes_value(b, l.ret.conversion, b.ret, TRUE)}}) :
                   b \in {read_bytes(l, l.ret.path[1])}}) :
         l \in {WebtoonMedia_load([w EXCEPT !.handle = Some(h)], FALSE)}})

\* dump_path that spills a record whatever it holds
dump_path_NoPathTest(w, h, p) ==
    The({IF l.exc # NoExc THEN l
         ELSE The({IF c.exc # NoExc THEN c
                   ELSE The({IF k.exc # NoExc THEN k
                             ELSE The({IF b.exc # NoExc THEN b
                                       ELSE The({IF f.exc # NoExc THEN f
                                                 ELSE Return(set(f, [l.ret EXCEPT
                                                                       !.data = PyNone,
                                                                       !.path = Some(p),
                                                                       !.conversion = c.ret]),
                                                             Nothing) :
                                                 f \in {write_bytes(b, p, b.ret)}}) :
                                       b \in {dump_bytes_value(k, l.ret.data)}}) :
                             k \in {mkdir(c, parent(p))}}) :
                   c \in {IF l.ret.conversion # None THEN Return(l, l.ret.conversion)
                          ELSE get_primitive_conversion(l, l.ret.data)}}) :
         l \in {WebtoonMedia_load([w EXCEPT !.handle = Some(h)], FALSE)}})

\* WebtoonMediaManger.dump_path: the path of a record that has one; otherwise
\* the directory is made, the data written to the file, and the record set
\* with the path, no data, and its conversion or else the primitive one, and
\* nothing is returned
dump_path(w, h, p) ==
    The({IF l.exc # NoExc THEN l
         ELSE IF l.ret.path # Nothing THEN Return(l, l.ret.path)
         ELSE The({IF c.exc # NoExc THEN c
                   ELSE The({IF k.exc # NoExc THEN k
                             ELSE The({IF b.exc # NoExc THEN b
                                       ELSE The({IF f.exc # NoExc THEN f
                                                 ELSE Return(set(f, [l.ret EXCEPT
                                                                       !.data = PyNone,
                                                                       !.path = Some(p),
                                                                       !.conversion = c.ret]),
                                                             Nothing) :
                                                 f \in {write_bytes(b, p, b.ret)}}) :
                                       b \in {dump_bytes_value(k, l.ret.data)}}) :
                             k \in {mkdir(c, parent(p))}}) :
                   c \in {IF l.ret.conversion # None THEN Return(l, l.ret.conversion)
                          ELSE get_primitive_conversion(l, l.ret.data)}}) :
         l \in {WebtoonMedia_load([w EXCEPT !.handle = Some(h)], FALSE)}})

\* WebtoonMediaManger.iterate(episode_no, purpose): a handle with the id of
\* each row that matches
iterate(w, episode_no, purpose) ==
    {WebtoonMedia(Some(r.id), TRUE, Nothing) :
        r \in {x \in w.media : /\ episode_no = Nothing \/ x.episode_no = episode_no[1]
                               /\ purpose = None \/ x.purpose = purpose}}

----
\* what `before` keeps of a file
Header(f) == [kind |-> f.kind, application_id |-> f.application_id, user_version |-> f.user_version]

\* no JsonData and no WebtoonMedia made yet, an empty media table, no file
\* outside the container
NoObjects ==
    /\ payload = Nothing
    /\ handle = Nothing
    /\ media = {}
    /\ disk = {}

\* the class attributes of WebtoonPathManager
PathManagerDefaults ==
    /\ _base_path = Nothing
    /\ convert_absolute = TRUE
    /\ self_contained = FALSE
    /\ fallback_base_path = TRUE
    /\ auto_initialize_base_path = TRUE

\* store a world back into the variables
Commit(w, op, arg) ==
    /\ file' = w.file
    /\ memdb' = w.memdb
    /\ conn' = w.conn
    /\ live' = w.live
    /\ in_memory' = w.in_memory
    /\ existed' = w.existed
    /\ outcome' = [op |-> op, exc |-> w.exc, warned |-> w.warned, arg |-> arg]
    /\ before' = IF op = "connect" THEN Header(file) ELSE Header(w.file)
    /\ UNCHANGED <<pathvars, objvars>>

Init ==
    /\ file \in InitialDbs
    /\ memdb = MissingDb
    /\ \E m \in ManagerInputs : path = m[1] /\ settings = m[2]
    /\ conn = NoConn
    /\ live = {}
    /\ in_memory = FALSE
    /\ existed = FALSE
    /\ env \in [EnvNames -> EnvValues]
    /\ outcome = Quiet
    /\ before = Header(file)
    /\ PathManagerDefaults
    /\ sys_base_directory = NullValue
    /\ cwd = Path(<<"/", "data">>)
    /\ NoObjects

\* WebtoonConnectionManager.__init__: a new manager replaces a closed one
NewManager ==
    /\ conn = NoConn
    /\ \E m \in ManagerInputs : path' = m[1] /\ settings' = m[2]
    /\ in_memory' = FALSE
    /\ existed' = FALSE
    /\ outcome' = Quiet
    /\ before' = Header(file)
    /\ UNCHANGED <<file, memdb, conn, live, env>>
    /\ UNCHANGED <<pathvars, objvars>>

\* a call of connect() on a closed manager
Connect ==
    /\ conn = NoConn
    /\ Commit(connect(World), "connect", 0)
    /\ UNCHANGED <<path, settings, env>>

\* a call of connect() on an open manager
Reconnect ==
    /\ conn # NoConn
    /\ Commit(connect(World), "reconnect", 0)
    /\ UNCHANGED <<path, settings, env>>

\* a call of close()
Close ==
    /\ Commit(close(World), "close", 0)
    /\ UNCHANGED <<path, settings, env>>

\* an assignment to the file_user_version property
SetFileUserVersion ==
    /\ \E v \in VersionInputs : Commit(set_file_user_version(World, v), "file_user_version", v)
    /\ UNCHANGED <<path, settings, env>>

\* the user sets an Info row
InfoSet ==
    /\ \E n \in EditNames : Commit(info_set(World, n), "info.set", 0)
    /\ UNCHANGED <<path, settings, env>>

\* the user deletes an Info row
InfoDelete ==
    /\ \E n \in EditNames, d \in BOOLEAN : Commit(info_delete(World, n, d), "info.delete", 0)
    /\ UNCHANGED <<path, settings, env>>

\* the process environment changes between calls
SetEnv ==
    /\ \E e \in [EnvNames -> EnvValues] : e # env /\ env' = e
    /\ outcome' = Quiet
    /\ before' = Header(file)
    /\ UNCHANGED <<file, memdb, path, settings, conn, live, in_memory, existed>>
    /\ UNCHANGED <<pathvars, objvars>>

Next ==
    \/ NewManager
    \/ Connect
    \/ Reconnect
    \/ Close
    \/ SetFileUserVersion
    \/ InfoSet
    \/ InfoDelete
    \/ SetEnv

Spec == Init /\ [][Next]_vars

----
\* The path manager of an open container

\* a container as connect() leaves it when it creates it
CreatedDb ==
    [kind |-> "db", application_id |-> APPLICATION_ID, user_version |-> user_version,
     tables |-> TableNames, info |-> [n \in InfoNames |-> "base"]]

\* the result of a call of the path manager
PathOutcome(op, arg, w, ret) ==
    [op |-> op, arg |-> arg, exc |-> w.exc, ret |-> IF w.exc = NoExc THEN ret ELSE Nothing]

\* store a world of the path manager back into the variables
PathCommit(w, op, arg, ret) ==
    /\ _base_path' = w._base_path
    /\ outcome' = PathOutcome(op, arg, w, ret)
    /\ UNCHANGED objvars

\* the flags of the path manager and what it reads from its surroundings
pathsettings == <<convert_absolute, self_contained, fallback_base_path,
                  auto_initialize_base_path, sys_base_directory, cwd>>

\* a container just opened, on a file or in memory, writable, with default
\* settings, and a path manager whose flags the program has set
InitPath ==
    /\ in_memory \in BOOLEAN
    /\ IF in_memory
       THEN path = None /\ file = MissingDb /\ memdb = CreatedDb
       ELSE path \in ContainerPaths /\ file = CreatedDb /\ memdb = MissingDb
    /\ settings = ConnectionSettings(<<FALSE, TRUE, FALSE>>, None, FALSE)
    /\ conn = 1
    /\ live = {1}
    /\ existed = FALSE
    /\ env = [n \in EnvNames |-> Unset]
    /\ before = Header(file)
    /\ _base_path = Nothing
    /\ convert_absolute \in BOOLEAN
    /\ self_contained \in BOOLEAN
    /\ fallback_base_path \in BOOLEAN
    /\ auto_initialize_base_path \in BOOLEAN
    /\ sys_base_directory \in SuggestedInputs
    /\ cwd \in Dirs
    /\ NoObjects
    /\ outcome = PathOutcome("none", Nothing, PathWorld, Nothing)

\* a call of initialize_base_path(path)
InitializeBasePath ==
    /\ \E e \in ExplicitInputs :
        LET w == initialize_base_path(PathWorld, e)
        IN  PathCommit(w, "initialize_base_path", e, Some(w.ret))
    /\ UNCHANGED <<connvars, before, pathsettings>>

\* an assignment to the base_path property
SetBasePath ==
    /\ \E e \in ExplicitInputs :
        PathCommit(set_base_path(PathWorld, e), "base_path=", e, Nothing)
    /\ UNCHANGED <<connvars, before, pathsettings>>

\* a read of the base_path property
GetBasePath ==
    /\ LET w == base_path(PathWorld)
       IN  PathCommit(w, "base_path", Nothing, Some(w.ret))
    /\ UNCHANGED <<connvars, before, pathsettings>>

\* a call of dump(path)
Dump ==
    /\ \E p \in {Nothing} \cup {Some(q) : q \in PathInputs} :
        LET w == dump(PathWorld, p)
        IN  PathCommit(w, "dump", p, w.ret)
    /\ UNCHANGED <<connvars, before, pathsettings>>

\* a call of load(raw_path)
Load ==
    /\ \E s \in {Nothing} \cup {Some(t) : t \in StoredInputs} :
        LET w == load(PathWorld, s)
        IN  PathCommit(w, "load", s, w.ret)
    /\ UNCHANGED <<connvars, before, pathsettings>>

\* load(dump(path)): a path stored and read back
DumpLoad ==
    /\ \E p \in PathInputs :
        \E d \in {dump(PathWorld, Some(p))} :
            \E l \in {IF d.exc # NoExc THEN d ELSE load(d, d.ret)} :
                PathCommit(l, "load(dump)", Some(p), l.ret)
    /\ UNCHANGED <<connvars, before, pathsettings>>

\* the program sets one of the flags of the path manager
SetAttribute ==
    /\ \/ convert_absolute' = ~convert_absolute
          /\ UNCHANGED <<self_contained, fallback_base_path, auto_initialize_base_path>>
       \/ self_contained' = ~self_contained
          /\ UNCHANGED <<convert_absolute, fallback_base_path, auto_initialize_base_path>>
       \/ fallback_base_path' = ~fallback_base_path
          /\ UNCHANGED <<convert_absolute, self_contained, auto_initialize_base_path>>
       \/ auto_initialize_base_path' = ~auto_initialize_base_path
          /\ UNCHANGED <<convert_absolute, self_contained, fallback_base_path>>
    /\ outcome' = PathOutcome("none", Nothing, PathWorld, Nothing)
    /\ UNCHANGED <<connvars, before, _base_path, sys_base_directory, cwd, objvars>>

\* os.chdir
Chdir ==
    /\ \E d \in Dirs : d # cwd /\ cwd' = d
    /\ outcome' = PathOutcome("none", Nothing, PathWorld, Nothing)
    /\ UNCHANGED <<connvars, before, _base_path, convert_absolute, self_contained,
                   fallback_base_path, auto_initialize_base_path, sys_base_directory,
                   objvars>>

NextPath ==
    \/ InitializeBasePath
    \/ SetBasePath
    \/ GetBasePath
    \/ Dump
    \/ Load
    \/ DumpLoad
    \/ SetAttribute
    \/ Chdir

SpecPath == InitPath /\ [][NextPath]_vars

----
\* The value conversion of an open container (SpecValue): values are converted
\* forward, stored primitives are loaded, and values make the round trip

\* what a JsonData is built from: data of every JSON shape, and raw texts, one
\* of them with whitespace between its tokens
JsonDataInputs ==
    {JsonData(data, PyNone, "json") :
        data \in {PyNone, PyBool("True"), PyInt("1"), PyFloat("1.5"), PyStr(<<"a">>),
                  PyList(<<>>), PyList(<<PyInt("-7"), PyStr(<<"">>)>>),
                  PyDict(<<>>),
                  PyDict(<<<<PyStr(<<"k">>), PyList(<<PyNone, PyBool("False")>>)>>>>)}}
    \cup {JsonData(PyList(<<PyInt("1")>>), PyNone, "jsonb")}
    \cup {JsonData(PyNone, PyStr(raw), c) :
        raw \in {<<"{", " ", Quote("k"), ":", " ", "[", "1", ",", " ", "0.0", "]", " ", "}">>},
        c \in {"json", "jsonb"}}

\* the values handed to the forward conversion: every type of the open domain,
\* and a list, which is none of them
ValueInputs ==
    {PyNone, PyBool("True"), PyBool("False"), PyInt("0"), PyInt("1"), PyInt("-7"),
     PyFloat("1.5"), PyFloat("0.0"), PyStr(<<>>), PyStr(<<"a">>), PyStr(<<"[", "1", "]">>),
     PyBytes(<<>>), PyBytes(<<"a">>), PyList(<<>>)}
    \cup JsonDataInputs
    \cup {PyPath(Path(s)) : s \in {<<"a.jpg">>,
                                    <<"/", "data", "/", "sub", "/", "a.jpg">>,
                                    <<"/", "other", "/", "a.jpg">>}}

\* the conversions handed to the forward conversion: none, tags, and a string
\* that is no tag
ConversionInputs == {None, "int", "blob"}

\* the tags of ConversionType
ConversionType == {"json", "jsonb", "path", "str", "bytes", "int", "float", "bool", "null"}

\* the primitives a column can hold
PrimitiveInputs ==
    {PyNone, PyInt("0"), PyInt("1"), PyFloat("1.5"), PyStr(<<"a">>),
     PyStr(<<"[", "1", "]">>), PyBytes(<<"a">>)}

\* an open container on a file, and a path manager two of whose flags the
\* program has set
InitValue ==
    /\ in_memory = FALSE
    /\ path = Path(<<"/", "data", "/", "sub", "/", "t.wbtn">>)
    /\ file = CreatedDb
    /\ memdb = MissingDb
    /\ settings = ConnectionSettings(<<FALSE, TRUE, FALSE>>, None, FALSE)
    /\ conn = 1
    /\ live = {1}
    /\ existed = FALSE
    /\ env = [n \in EnvNames |-> Unset]
    /\ before = Header(file)
    /\ _base_path = Nothing
    /\ convert_absolute \in BOOLEAN
    /\ self_contained \in BOOLEAN
    /\ fallback_base_path = TRUE
    /\ auto_initialize_base_path = TRUE
    /\ sys_base_directory = NullValue
    /\ cwd \in Dirs
    /\ NoObjects
    /\ outcome = PathOutcome("none", Nothing, PathWorld, Nothing)

\* a call of dump_conversion_query_value(value, conversion, primitive_conversion=...)
DumpConversionQueryValue ==
    /\ \E value \in ValueInputs, conversion \in ConversionInputs,
          primitive_conversion \in BOOLEAN :
        \E w \in {dump_conversion_query_value(PathWorld, value, conversion,
                                              primitive_conversion)} :
            PathCommit(w, "dump_conversion_query_value",
                       Some([value |-> value, conversion |-> conversion,
                             primitive_conversion |-> primitive_conversion]),
                       Some(w.ret))
    /\ UNCHANGED <<connvars, before, pathsettings>>

\* a call of load(conversion, original_value)
LoadValue ==
    /\ \E conversion \in {None, "blob"} \cup ConversionType,
          original_value \in PrimitiveInputs :
        \E w \in {WebtoonValue_load(PathWorld, conversion, original_value)} :
            PathCommit(w, "value.load",
                       Some([conversion |-> conversion, original_value |-> original_value]),
                       Some(w.ret))
    /\ UNCHANGED <<connvars, before, pathsettings>>

\* load(conversion, primitive) of what dump_conversion_query_value(value) gave,
\* the conversion left to the forward conversion
RoundTrip ==
    /\ \E value \in ValueInputs, primitive_conversion \in BOOLEAN :
        \E f \in {dump_conversion_query_value(PathWorld, value, None,
                                              primitive_conversion)} :
            \E l \in {IF f.exc # NoExc THEN f
                      ELSE WebtoonValue_load(f, f.ret.conversion, f.ret.value)} :
                PathCommit(l, "value.load(dump_conversion_query_value)",
                           Some([value |-> value,
                                 primitive_conversion |-> primitive_conversion]),
                           Some(l.ret))
    /\ UNCHANGED <<connvars, before, pathsettings>>

NextValue ==
    \/ DumpConversionQueryValue
    \/ LoadValue
    \/ RoundTrip

SpecValue == InitValue /\ [][NextValue]_vars

----
\* The JsonData object of a program (SpecJson): it is constructed, dumped and
\* loaded, with and without replacement of what it holds, and compared

\* the data handed to JsonData(data=...): None, numbers of the three types,
\* equal and different, a list, and dicts with their keys in two orders
JsonValueInputs ==
    {PyNone, PyBool("True"), PyInt("1"), PyInt("0"), PyFloat("1.5"), PyStr(<<"a">>),
     PyList(<<PyInt("1"), PyNone>>),
     PyDict(<<<<PyStr(<<"k">>), PyInt("1")>>, <<PyStr(<<"a">>), PyList(<<>>)>>>>)}

\* the texts handed to JsonData(raw=...): None, texts of the same data with and
\* without whitespace and with the keys in another order, and one that is not
\* JSON
RawInputs ==
    {PyNone, PyStr(<<"1">>), PyStr(<<"0">>), PyStr(<<"[", "1", ",", "null", "]">>),
     PyStr(<<"[", " ", "1", ",", " ", "null", " ", "]">>),
     PyStr(<<"{", Quote("a"), ":", "[", "]", ",", Quote("k"), ":", "1", "}">>),
     PyStr(<<"{", Quote("k")>>)}

\* the JsonData objects a JsonData is compared with
OtherInputs ==
    {JsonData(data, PyNone, "json") : data \in JsonValueInputs}
    \cup {JsonData(PyNone, raw, "json") : raw \in RawInputs \ {PyNone}}

\* an open container, and no JsonData yet
InitJson ==
    /\ in_memory = FALSE
    /\ path = Path(<<"/", "data", "/", "sub", "/", "t.wbtn">>)
    /\ file = CreatedDb
    /\ memdb = MissingDb
    /\ settings = ConnectionSettings(<<FALSE, TRUE, FALSE>>, None, FALSE)
    /\ conn = 1
    /\ live = {1}
    /\ existed = FALSE
    /\ env = [n \in EnvNames |-> Unset]
    /\ before = Header(file)
    /\ PathManagerDefaults
    /\ sys_base_directory = NullValue
    /\ cwd = Path(<<"/", "data">>)
    /\ NoObjects
    /\ outcome = PathOutcome("none", Nothing, PathWorld, Nothing)

\* store a world of the JsonData back into the variables
JsonCommit(w, op, arg, ret) ==
    /\ payload' = w.payload
    /\ outcome' = PathOutcome(op, arg, w, ret)
    /\ UNCHANGED <<handle, media, disk>>

\* JsonData(data=..., raw=..., conversion=...)
NewJsonData ==
    /\ \E data \in JsonValueInputs, raw \in RawInputs, conversion \in {"json", "jsonb"} :
        \E w \in {JsonData___init__(JsonWorld, data, raw, conversion)} :
            JsonCommit(w, "JsonData", Some([data |-> data, raw |-> raw]), Nothing)
    /\ UNCHANGED <<connvars, before, pathvars>>

\* a call of dump(store_raw=...)
DumpPayload ==
    /\ payload # Nothing
    /\ \E store_raw \in BOOLEAN :
        \E w \in {JsonData_dump_store_raw(JsonWorld, store_raw)} :
            JsonCommit(w, "JsonData.dump", Some(store_raw), Some(w.ret))
    /\ UNCHANGED <<connvars, before, pathvars>>

\* a call of load(store_data=...)
LoadPayload ==
    /\ payload # Nothing
    /\ \E store_data \in BOOLEAN :
        \E w \in {JsonData_load_store_data(JsonWorld, store_data)} :
            JsonCommit(w, "JsonData.load", Some(store_data), Some(w.ret))
    /\ UNCHANGED <<connvars, before, pathvars>>

\* payload == other
ComparePayload ==
    /\ payload # Nothing
    /\ \E other \in OtherInputs :
        \E w \in {JsonData___eq__(JsonWorld, payload[1], other)} :
            JsonCommit(w, "JsonData.__eq__", Some(other), Some(w.ret))
    /\ UNCHANGED <<connvars, before, pathvars>>

NextJson ==
    \/ NewJsonData
    \/ DumpPayload
    \/ LoadPayload
    \/ ComparePayload

SpecJson == InitJson /\ [][NextJson]_vars

----
\* The media manager of an open container (SpecMedia): rows are added, inline
\* and with a file, and removed, and a handle is made, resolved and turned
\* back into its id

\* the largest id a row gets
MaxId == 2

\* the files a payload is written to: in a directory of the base directory
\* that is not there yet, and in one the process may not change
FileInputs ==
    {Path(s) : s \in {<<"/", "data", "/", "new", "/", "b.jpg">>,
                      <<"/", "data", "/", "ro", "/", "a.jpg">>}}

\* the inline payloads: bytes and a JSON text
DataInputs == {PyBytes(<<"a">>), JsonData(PyNone, PyStr(<<"[", " ", "1", "]">>), "json")}

\* the payload written to a file
FilePayloads == {PyBytes(<<"a">>)}

\* the conversions handed to add and add_path_or_data: none and a tag
TagInputs == {None, "bytes"}

\* the episode of a row, one that is there and one that is not
EpisodeInputs == {1, 2}

\* an open container in /data with default settings, a path manager one of
\* whose flags the program has set, an empty media table, and the directories
\* of the process, one of them read-only with a file in it
InitMedia ==
    /\ in_memory = FALSE
    /\ path = Path(<<"/", "data", "/", "t.wbtn">>)
    /\ file = CreatedDb
    /\ memdb = MissingDb
    /\ settings = ConnectionSettings(<<FALSE, TRUE, FALSE>>, None, FALSE)
    /\ conn = 1
    /\ live = {1}
    /\ existed = FALSE
    /\ env = [n \in EnvNames |-> Unset]
    /\ before = Header(file)
    /\ _base_path = Nothing
    /\ convert_absolute = TRUE
    /\ self_contained \in BOOLEAN
    /\ fallback_base_path = TRUE
    /\ auto_initialize_base_path = TRUE
    /\ sys_base_directory = NullValue
    /\ cwd = Path(<<"/", "data">>)
    /\ payload = Nothing
    /\ handle = Nothing
    /\ media = {}
    /\ disk = {Dir(Path(<<"/">>)), Dir(Path(<<"/", "data">>)),
               Dir(Path(<<"/", "data", "/", "ro">>)),
               File(Path(<<"/", "data", "/", "ro", "/", "a.jpg">>), PyBytes(<<"old">>))}
    /\ outcome = PathOutcome("none", Nothing, PathWorld, Nothing)

\* store a world of the media manager back into the variables
MediaCommit(w, op, arg, ret) ==
    /\ _base_path' = w._base_path
    /\ media' = w.media
    /\ disk' = w.disk
    /\ handle' = w.handle
    /\ outcome' = PathOutcome(op, arg, w, ret)
    /\ UNCHANGED payload

\* the records the program can hold: those of the rows that load
Records ==
    {m.ret : m \in {l \in {_load(MediaWorld, r.id) : r \in media} : l.exc = NoExc}}

\* WebtoonMedia(media_id=..., webtoon=..., media=...)
NewWebtoonMedia ==
    /\ \E media_id \in {Nothing} \cup {Some(i) : i \in 1..MaxId}, webtoon \in BOOLEAN,
          m \in {Nothing} \cup {Some(r) : r \in Records} :
        \E w \in {WebtoonMedia___init__(MediaWorld, media_id, webtoon, m)} :
            MediaCommit(w, "WebtoonMedia",
                        Some([media_id |-> media_id, webtoon |-> webtoon, media |-> m]),
                        Nothing)
    /\ UNCHANGED <<connvars, before, pathsettings>>

\* a call of load(store_media=...) on the handle
HandleLoad ==
    /\ handle # Nothing
    /\ \E store_media \in BOOLEAN :
        \E w \in {WebtoonMedia_load(MediaWorld, store_media)} :
            MediaCommit(w, "WebtoonMedia.load", Some(store_media), Some(w.ret))
    /\ UNCHANGED <<connvars, before, pathsettings>>

\* a call of media_id(store_id=...) on the handle
HandleMediaId ==
    /\ handle # Nothing
    /\ \E store_id \in BOOLEAN :
        \E w \in {WebtoonMedia_media_id(MediaWorld, store_id)} :
            MediaCommit(w, "WebtoonMedia.media_id", Some(store_id), Some(w.ret))
    /\ UNCHANGED <<connvars, before, pathsettings>>

\* a call of media.add(path_or_data, episode_no, media_no, purpose, conversion);
\* the program keeps the handle it returns
Add ==
    /\ NextId(media) <= MaxId
    /\ \E path_or_data \in DataInputs \cup {PyPath(p) : p \in FileInputs},
          episode_no \in EpisodeInputs, conversion \in TagInputs :
        \E w \in {add(MediaWorld, path_or_data, episode_no, 1, "image", conversion)} :
            MediaCommit(w, "add",
                        Some([path_or_data |-> path_or_data, episode_no |-> episode_no,
                              conversion |-> conversion]),
                        Some(w.ret))
    /\ UNCHANGED <<connvars, before, pathsettings>>

\* a call of media.add_path_or_data(path, data, episode_no, media_no, purpose,
\* conversion, mkdir=...); the program keeps the handle it returns
AddPathOrData ==
    /\ NextId(media) <= MaxId
    /\ \E p \in FileInputs, data \in FilePayloads, episode_no \in EpisodeInputs,
          conversion \in TagInputs, mk \in BOOLEAN :
        \E w \in {add_path_or_data(MediaWorld, p, data, episode_no, 1, "image",
                                   conversion, mk)} :
            MediaCommit(w, "add_path_or_data",
                        Some([path |-> p, data |-> data, episode_no |-> episode_no,
                              conversion |-> conversion, mkdir |-> mk]),
                        Some(w.ret))
    /\ UNCHANGED <<connvars, before, pathsettings>>

\* a call of media.remove(handle)
Remove ==
    /\ handle # Nothing
    /\ \E w \in {remove(MediaWorld, handle[1])} :
        MediaCommit(w, "remove", Some(handle[1]), Nothing)
    /\ UNCHANGED <<connvars, before, pathsettings>>

NextMedia ==
    \/ NewWebtoonMedia
    \/ HandleLoad
    \/ HandleMediaId
    \/ Add
    \/ AddPathOrData
    \/ Remove

SpecMedia == InitMedia /\ [][NextMedia]_vars

----
\* The rows of the media table through their life (SpecStore): they are added
\* inline and with a file, written back, spilled to a file, materialized and
\* removed, by the handle the program holds

\* the inline payloads of a row: untagged bytes, and the tagged ones
StoreInputs ==
    {PyBytes(<<"a">>), PyBool("True"), PyNone,
     JsonData(PyNone, PyStr(<<"[", " ", "1", "]">>), "json")}

\* the media_no of a row
MediaNoInputs == {1, 2}

\* the file a payload is spilled to
SpillInputs == {Path(<<"/", "data", "/", "new", "/", "b.jpg">>)}

\* what the program does to a record before it writes it back: nothing, new
\* data, a path beside the data, a path and no conversion, a path with its
\* conversion, nothing at all, and new data under an id no row has
Edits(m) ==
    {m,
     [m EXCEPT !.data = PyBytes(<<"b">>)],
     [m EXCEPT !.path = Some(Path(<<"/", "data", "/", "new", "/", "b.jpg">>)),
               !.data = PyBytes(<<"b">>), !.conversion = "bytes"],
     [m EXCEPT !.path = Some(Path(<<"/", "data", "/", "new", "/", "b.jpg">>)),
               !.data = PyNone, !.conversion = None],
     [m EXCEPT !.path = Some(Path(<<"/", "data", "/", "ro", "/", "a.jpg">>)),
               !.data = PyNone, !.conversion = "bytes"],
     [m EXCEPT !.path = Nothing, !.data = PyNone, !.conversion = None],
     [m EXCEPT !.media_id = MaxId + 1, !.path = Nothing, !.data = PyBytes(<<"b">>),
               !.conversion = None]}

\* a call of media.add(data, episode_no, media_no, purpose) with an inline
\* payload; the program keeps the handle it returns
StoreAdd ==
    /\ NextId(media) <= MaxId
    /\ \E data \in StoreInputs, media_no \in MediaNoInputs :
        \E w \in {add(MediaWorld, data, 1, media_no, "image", None)} :
            MediaCommit(w, "add",
                        Some([path_or_data |-> data, episode_no |-> 1,
                              media_no |-> media_no, conversion |-> None]),
                        Some(w.ret))
    /\ UNCHANGED <<connvars, before, pathsettings>>

\* a call of media.add_path_or_data(path, data, episode_no, media_no, purpose,
\* mkdir=True); the program keeps the handle it returns
StoreAddPathOrData ==
    /\ NextId(media) <= MaxId
    /\ \E p \in FileInputs, data \in FilePayloads, episode_no \in EpisodeInputs :
        \E w \in {add_path_or_data(MediaWorld, p, data, episode_no, 1, "image",
                                   None, TRUE)} :
            MediaCommit(w, "add_path_or_data",
                        Some([path |-> p, data |-> data, episode_no |-> episode_no,
                              media_no |-> 1, conversion |-> None, mkdir |-> TRUE]),
                        Some(w.ret))
    /\ UNCHANGED <<connvars, before, pathsettings>>

\* the process stops inside add_path_or_data, after the file is written and
\* before the row is added
StoreCrash ==
    /\ ~self_contained
    /\ \E p \in FileInputs, data \in FilePayloads :
        /\ Written(MediaWorld, p, data, TRUE)
        /\ \E w \in {write_bytes(mkdir(MediaWorld, parent(p)), p,
                                 dump_bytes_value(MediaWorld, data).ret)} :
            /\ disk' = w.disk
            /\ outcome' = PathOutcome("crash", Some([path |-> p, data |-> data]), w, Nothing)
    /\ UNCHANGED <<_base_path, media, handle, payload>>
    /\ UNCHANGED <<connvars, before, pathsettings>>

\* the program takes a handle that media.iterate(None) yields
StoreIterate ==
    /\ \E h \in iterate(MediaWorld, Nothing, None) :
        /\ handle' = Some(h)
        /\ outcome' = PathOutcome("iterate", Nothing, MediaWorld, Some(h))
    /\ UNCHANGED <<_base_path, media, disk, payload>>
    /\ UNCHANGED <<connvars, before, pathsettings>>

\* a call of media.set(record), the record being the one the handle loads,
\* as it is or edited
StoreSet ==
    /\ handle # Nothing
    /\ \E l \in {WebtoonMedia_load(MediaWorld, FALSE)} :
        /\ l.exc = NoExc
        /\ \E m \in Edits(l.ret) :
            \E w \in {set(Return(l, Nothing), m)} :
                MediaCommit(w, "set", Some(m), Nothing)
    /\ UNCHANGED <<connvars, before, pathsettings>>

\* a call of media.load_data(handle, store_data=...)
StoreLoadData ==
    /\ handle # Nothing
    /\ \E store_data \in BOOLEAN :
        \E w \in {load_data(MediaWorld, handle[1], store_data)} :
            MediaCommit(w, "load_data", Some(store_data), Some(w.ret))
    /\ UNCHANGED <<connvars, before, pathsettings>>

\* a call of media.dump_path(handle, path)
StoreDumpPath ==
    /\ handle # Nothing
    /\ \E p \in SpillInputs :
        \E w \in {dump_path(MediaWorld, handle[1], p)} :
            MediaCommit(w, "dump_path", Some(p), w.ret)
    /\ UNCHANGED <<connvars, before, pathsettings>>

\* a call of media.remove(handle)
StoreRemove ==
    /\ handle # Nothing
    /\ \E w \in {remove(MediaWorld, handle[1])} :
        MediaCommit(w, "remove", Some(handle[1]), Nothing)
    /\ UNCHANGED <<connvars, before, pathsettings>>

NextStore ==
    \/ StoreAdd
    \/ StoreAddPathOrData
    \/ StoreCrash
    \/ StoreIterate
    \/ StoreSet
    \/ StoreLoadData
    \/ StoreDumpPath
    \/ StoreRemove

\* an open container as in InitMedia, outside self-contained mode
InitStore ==
    /\ InitMedia
    /\ ~self_contained

SpecStore == InitStore /\ [][NextStore]_vars

----
\* Vocabulary of the properties

\* the open discards the target first (the clobber arm of the match)
Clobbers == ~settings.read_only /\ settings.clear_existing_db

\* the manager's journal_mode is unset or one sqlite has
JournalAccepted == settings.journal_mode = None \/ settings.journal_mode \in JOURNAL_MODES

\* the step is a call of connect() on a closed manager whose path is the target file
OpensFile == outcome'.op = "connect" /\ path = FilePath

\* the target holds a database when the call starts and the open does not discard it
OpensExisting == OpensFile /\ file.kind = "db" /\ ~Clobbers

\* the same, and the checks run and the marker passes
ChecksVersion ==
    /\ OpensExisting
    /\ ~settings.bypass_integrity_check
    /\ file.application_id = APPLICATION_ID

Major(v) == v \div 1000

Larger(a, b) == IF a >= b THEN a ELSE b

\* the last call was a connect() on the target file that raised nothing
OpenedFile == outcome.op = "connect" /\ outcome.exc = NoExc /\ path = FilePath /\ conn # NoConn

----
\* C1 (as stated) - once the stored version is N, no later open of the container
\* that does not clobber it leaves the version below N, with or without the
\* integrity-bypass flag.
C1_AnyOpenKeepsVersion ==
    [][OpensExisting => file'.kind = "db" /\ file'.user_version >= file.user_version]_vars

\* C1 (amended) - no open without the integrity-bypass flag (read-only or
\* writable, any override signals, clobber excluded) leaves the stored version
\* below what it was, and an assignment to file_user_version of a value lower
\* than the stored one raises WebtoonSchemaError and changes nothing.
C1_VersionMonotonic ==
    [][/\ (OpensExisting /\ ~settings.bypass_integrity_check)
            => file'.kind = "db" /\ file'.user_version >= file.user_version
       /\ (outcome'.op = "file_user_version" /\ conn # NoConn
             /\ outcome'.arg < Db(World).user_version)
            => /\ outcome'.exc = "WebtoonSchemaError"
               /\ file' = file
               /\ memdb' = memdb]_vars

\* C1 witness - on a manager open writable on a container at the current
\* version, the assignment file_user_version = 1 has just raised WebtoonSchemaError
C1_Witness ==
    /\ outcome.op = "file_user_version"
    /\ outcome.arg = 1
    /\ outcome.exc = "WebtoonSchemaError"
    /\ conn # NoConn
    /\ path = FilePath
    /\ ~settings.read_only
    /\ file.user_version = user_version

\* C2 - a non-bypass open of a pre-existing, non-empty target (one the open does
\* not discard) whose marker is zero, or nonzero and not 0x5742544e, raises
\* WebtoonSchemaError and leaves marker, version and everything else stored as
\* they were.
C2_MarkerCheck ==
    [][(/\ OpensExisting
        /\ ~settings.bypass_integrity_check
        /\ file.application_id # APPLICATION_ID)
        => /\ outcome'.exc = "WebtoonSchemaError"
           /\ file' = file]_vars

\* C2 witness - an open of a container with the marker 0x12345678 and the current
\* version has just failed with WebtoonSchemaError
C2_Witness ==
    /\ outcome.op = "connect"
    /\ outcome.exc = "WebtoonSchemaError"
    /\ path = FilePath
    /\ ~settings.bypass_integrity_check
    /\ file.kind = "db"
    /\ file.application_id = ForeignApplicationId
    /\ file.user_version = user_version

\* C3 - a writable open with the integrity-bypass flag that succeeds leaves the
\* stored marker equal to 0x5742544e and the stored version equal to the current
\* schema version, whatever the target held before.
C3_BypassForcesMarkerAndVersion ==
    [][(/\ OpensFile
        /\ settings.bypass_integrity_check
        /\ ~settings.read_only
        /\ outcome'.exc = NoExc)
        => /\ file'.application_id = APPLICATION_ID
           /\ file'.user_version = user_version]_vars

\* C4 (as stated) - a writable, non-bypass open of an existing container whose
\* stored major equals the running major succeeds and leaves the stored version
\* equal to the current schema version, whatever the stored minor was.
C4_SameMajorBecomesCurrent ==
    [][(/\ ChecksVersion
        /\ ~settings.read_only
        /\ JournalAccepted
        /\ Major(file.user_version) = Major(user_version))
        => /\ outcome'.exc = NoExc
           /\ file'.user_version = user_version]_vars

\* C4 (amended) - such an open succeeds and leaves the stored version equal to
\* the larger of the stored and the current schema version: a stored minor above
\* the current one stays, the version is never lowered.
C4_SameMajorNeverLowered ==
    [][(/\ ChecksVersion
        /\ ~settings.read_only
        /\ JournalAccepted
        /\ Major(file.user_version) = Major(user_version))
        => /\ outcome'.exc = NoExc
           /\ conn' # NoConn
           /\ file'.user_version = Larger(file.user_version, user_version)]_vars

\* C4 witness - a container at 1001 was opened writable without bypass and is
\* still at 1001
C4_Witness ==
    /\ OpenedFile
    /\ ~settings.read_only
    /\ ~settings.bypass_integrity_check
    /\ ~settings.clear_existing_db
    /\ before.kind = "db"
    /\ before.user_version = 1001
    /\ file.user_version = 1001

\* C5 - a container whose stored major is above the running major fails to open
\* with WebtoonSchemaError, nothing stored changing, unless
\* WBTN_FORCE_OPEN_FUTURE_FORMAT is nonzero; with it the container opens and the
\* stored version is left as it was.
C5_FutureFormat ==
    [][(ChecksVersion /\ Major(file.user_version) > Major(user_version))
        => IF getenv("WBTN_FORCE_OPEN_FUTURE_FORMAT", "0") = "0"
           THEN /\ outcome'.exc = "WebtoonSchemaError"
                /\ conn' = NoConn
                /\ file' = file
           ELSE /\ file'.user_version = file.user_version
                /\ (settings.read_only \/ JournalAccepted)
                     => outcome'.exc = NoExc /\ conn' # NoConn]_vars

\* C5 witness - a container at 2000 is open, writable, under the future override
\* alone, and still at 2000
C5_Witness ==
    /\ OpenedFile
    /\ ~settings.read_only
    /\ ~settings.bypass_integrity_check
    /\ env["WBTN_FORCE_OPEN_FUTURE_FORMAT"] = "1"
    /\ env["WBTN_FORCE_OPEN_PAST_FORMAT"] = Unset
    /\ before.user_version = 2000
    /\ file.user_version = 2000

\* C6 - a container whose stored version is nonzero and whose stored major is
\* below the running major fails to open with WebtoonSchemaError, nothing stored
\* changing, unless WBTN_FORCE_OPEN_PAST_FORMAT is nonzero; with it a writable
\* open succeeds and the stored version becomes the current schema version.
C6_LegacyFormat ==
    [][(/\ ChecksVersion
        /\ file.user_version # 0
        /\ Major(file.user_version) < Major(user_version))
        => IF getenv("WBTN_FORCE_OPEN_PAST_FORMAT", "0") = "0"
           THEN /\ outcome'.exc = "WebtoonSchemaError"
                /\ conn' = NoConn
                /\ file' = file
           ELSE (~settings.read_only /\ JournalAccepted)
                     => /\ outcome'.exc = NoExc
                        /\ conn' # NoConn
                        /\ file'.user_version = user_version]_vars

\* C6 witness - a container at version 1 was opened writable under the legacy
\* override alone and is now at the current version
C6_Witness ==
    /\ OpenedFile
    /\ ~settings.read_only
    /\ ~settings.bypass_integrity_check
    /\ ~settings.clear_existing_db
    /\ env["WBTN_FORCE_OPEN_PAST_FORMAT"] = "1"
    /\ env["WBTN_FORCE_OPEN_FUTURE_FORMAT"] = Unset
    /\ before.kind = "db"
    /\ before.user_version = 1
    /\ file.user_version = user_version

\* C7 - an existing, non-empty container whose stored version is 0 opens with a
\* warning: a writable open leaves the stored version at the current schema
\* version, a read-only open leaves it at 0 and changes nothing.
C7_UninitializedVersion ==
    [][(ChecksVersion /\ file.user_version = 0)
        => /\ outcome'.warned
           /\ IF settings.read_only
              THEN /\ outcome'.exc = NoExc
                   /\ conn' # NoConn
                   /\ file' = file
              ELSE JournalAccepted
                     => /\ outcome'.exc = NoExc
                        /\ conn' # NoConn
                        /\ file'.user_version = user_version]_vars

\* C7 witness - a container at version 0 was opened writable with a warning, no
\* override set, and is now at the current version
C7_Witness ==
    /\ OpenedFile
    /\ outcome.warned
    /\ ~settings.read_only
    /\ env["WBTN_FORCE_OPEN_PAST_FORMAT"] = Unset
    /\ before.kind = "db"
    /\ before.user_version = 0
    /\ file.user_version = user_version

\* C8 - a successful writable open of a brand-new target (missing file, empty
\* file, in-memory instance) leaves all six tables, the marker 0x5742544e, the
\* current schema version and the baseline Info rows; an open of a container that
\* already existed inserts no Info row, so the rows are as the user left them.
C8_BootstrapOnce ==
    [][/\ (/\ outcome'.op = "connect"
           /\ ~settings.read_only
           /\ outcome'.exc = NoExc
           /\ (path = None \/ file.kind \in {"missing", "empty"}))
            => LET d == IF path = None THEN memdb' ELSE file'
               IN  /\ d.kind = "db"
                   /\ d.tables = TableNames
                   /\ d.application_id = APPLICATION_ID
                   /\ d.user_version = user_version
                   /\ \A n \in BaselineInfoNames : d.info[n] = "base"
       /\ OpensExisting => file'.info = file.info]_vars

\* C8 witness - a container the program created, from which the user deleted
\* sys_agent, was opened writable again: sys_agent is still gone, the other
\* baseline rows are as inserted
C8_Witness ==
    /\ OpenedFile
    /\ existed
    /\ ~settings.read_only
    /\ file.tables = TableNames
    /\ file.info["sys_agent"] = "absent"
    /\ \A n \in BaselineInfoNames \ {"sys_agent"} : file.info[n] = "base"

\* C9 - when connect() raises, the backing connection it had opened is closed and
\* the manager is closed, and the exception is the one the failing step raised
\* (an in-memory open fails only with WebtoonOpenError).
C9_FailedOpenIsClosed ==
    (outcome.op = "connect" /\ outcome.exc # NoExc)
        => /\ conn = NoConn
           /\ live = {}
           /\ memdb = MissingDb
           /\ outcome.exc \in {"WebtoonOpenError", "WebtoonSchemaError", "FileNotFoundError"}
           /\ path = None => outcome.exc = "WebtoonOpenError"

\* C9 witness - an open of an empty file failed on the journaling mode after the
\* connection was made and the header written, and nothing is left open
C9_Witness ==
    /\ outcome.op = "connect"
    /\ outcome.exc = "WebtoonOpenError"
    /\ path = FilePath
    /\ before.kind = "empty"
    /\ file.kind = "db"
    /\ conn = NoConn
    /\ live = {}

\* C10 - the manager holds at most one backing connection, the one in _conn;
\* connect() on an open manager keeps that connection and runs no check, pragma
\* or bootstrap step; close() on a closed manager does nothing.
C10_OneConnection ==
    [][/\ live' = (IF conn' = NoConn THEN {} ELSE {conn'})
       /\ outcome'.op = "reconnect"
            => /\ outcome'.exc = NoExc
               /\ ~outcome'.warned
               /\ UNCHANGED <<file, memdb, conn, live, in_memory, existed>>
       /\ (outcome'.op = "close" /\ conn = NoConn)
            => /\ outcome'.exc = NoExc
               /\ UNCHANGED <<file, memdb, conn, live>>]_vars

\* C10 witness - connect() was called on a manager that is open on a container
\* of a later major version, the override that let it open being gone by then
C10_Witness ==
    /\ outcome.op = "reconnect"
    /\ conn # NoConn
    /\ live = {conn}
    /\ path = FilePath
    /\ ~settings.bypass_integrity_check
    /\ Major(file.user_version) > Major(user_version)
    /\ env["WBTN_FORCE_OPEN_FUTURE_FORMAT"] = Unset

\* the step is a write through the manager: an assignment to file_user_version
\* or a statement of WebtoonInfoManager.set on a cursor
Writes == outcome'.op \in {"file_user_version", "info.set"}

\* C11 (as stated) - a use of the connection while the manager is closed raises
\* WebtoonConnectionError, and every write through a manager opened read-only
\* raises WebtoonConnectionError and leaves the store unchanged.
C11_ReadOnlyWriteIsConnectionError ==
    [][/\ (Writes /\ conn = NoConn) => outcome'.exc = "WebtoonConnectionError"
       /\ (Writes /\ conn # NoConn /\ settings.read_only)
            => outcome'.exc = "WebtoonConnectionError" /\ file' = file]_vars

\* C11 (amended) - a use of the connection while the manager is closed raises
\* WebtoonConnectionError and changes nothing; on a manager opened read-only no
\* write changes the store: an assignment to file_user_version of a value not
\* below the stored one raises WebtoonConnectionError, and a write through a
\* cursor raises sqlite3.OperationalError.
C11_ClosedAndReadOnlyUse ==
    [][/\ (Writes /\ conn = NoConn)
            => /\ outcome'.exc = "WebtoonConnectionError"
               /\ UNCHANGED <<file, memdb, conn, live>>
       /\ (outcome'.op = "info.delete" /\ conn = NoConn)
            => /\ outcome'.exc \in {"WebtoonConnectionError", "KeyError"}
               /\ UNCHANGED <<file, memdb, conn, live>>
       /\ (conn # NoConn /\ settings.read_only
             /\ outcome'.op \in {"file_user_version", "info.set", "info.delete"})
            => /\ outcome'.exc # NoExc
               /\ UNCHANGED <<file, memdb, conn, live>>
       /\ (conn # NoConn /\ settings.read_only /\ outcome'.op = "file_user_version"
             /\ outcome'.arg >= file.user_version)
            => outcome'.exc = "WebtoonConnectionError"
       /\ (conn # NoConn /\ settings.read_only /\ outcome'.op = "info.set")
            => outcome'.exc = "sqlite3.OperationalError"]_vars

\* C11 witness - WebtoonInfoManager.set on a container open read-only has just
\* raised sqlite3.OperationalError
C11_Witness ==
    /\ outcome.op = "info.set"
    /\ outcome.exc = "sqlite3.OperationalError"
    /\ conn # NoConn
    /\ settings.read_only
    /\ file.kind = "db"

\* the step is a call of connect() on a closed manager of an in-memory instance
OpensMemory == outcome'.op = "connect" /\ path = None

\* C12 (as stated) - an in-memory instance opens only in create mode (not
\* read-only, not must-exist, not clobber) with journaling unset, "memory" or
\* "off"; every other combination raises WebtoonOpenError before any connection
\* is made, and leaves the manager closed.
C12_MemoryOnlyCreateMode ==
    [][OpensMemory =>
         IF /\ ~settings.read_only /\ settings.create_db /\ ~settings.clear_existing_db
            /\ settings.journal_mode \in {None, "memory", "off"}
         THEN outcome'.exc = NoExc /\ conn' # NoConn
         ELSE /\ outcome'.exc = "WebtoonOpenError"
              /\ _connect(World).conn = NoConn
              /\ conn' = NoConn]_vars

\* C12 (amended) - an in-memory instance opens when it is not read-only and
\* create_db is set, the clobber flag being ignored, with journaling unset,
\* "memory" or "off". A read-only or must-exist open raises WebtoonOpenError
\* before any connection is made. Any other journaling mode raises
\* WebtoonOpenError after the connection was made and the header written to the
\* in-memory database; that connection is closed and the manager left closed.
C12_MemoryOpen ==
    [][OpensMemory =>
         IF settings.read_only \/ ~settings.create_db
         THEN /\ outcome'.exc = "WebtoonOpenError"
              /\ _connect(World).conn = NoConn
              /\ UNCHANGED <<file, memdb, conn, live>>
         ELSE IF settings.journal_mode \in {None, "memory", "off"}
         THEN /\ outcome'.exc = NoExc
              /\ conn' # NoConn
              /\ in_memory'
              /\ file' = file
         ELSE /\ outcome'.exc = "WebtoonOpenError"
              /\ _connect(World).conn # NoConn
              /\ PragmaWrites(_connect(World)).memdb.application_id = APPLICATION_ID
              /\ conn' = NoConn
              /\ live' = {}
              /\ memdb' = MissingDb
              /\ file' = file]_vars

\* C12 witness - an in-memory instance with the clobber flag set is open
C12_Witness ==
    /\ outcome.op = "connect"
    /\ outcome.exc = NoExc
    /\ path = None
    /\ settings.clear_existing_db
    /\ conn # NoConn
    /\ in_memory
    /\ memdb.tables = TableNames

----
\* Vocabulary of the properties of the path manager

\* what the base_path getter gives in the state the call starts from
Base == base_path(PathWorld)

\* the getter gives a base directory: not self-contained, and the base directory
\* is set or automatic initialisation sets it
BaseAvailable == Base.exc = NoExc

\* the step is a call of dump on a path
Dumps == outcome'.op = "dump" /\ outcome'.arg # Nothing

\* the step is a call of load on a string
Loads == outcome'.op = "load" /\ outcome'.arg # Nothing

\* the step is a call that initialises the base directory
Initializes == outcome'.op \in {"initialize_base_path", "base_path="}

\* the path p taken from directory d and normalised
From(d, p) == [absolute |-> TRUE, parts |-> Collapse(<<>>, Join(d, p).parts)]

\* the suggested directory is there and fails validation: absolute, or resolving
\* outside the folder of the container file
SuggestionInvalid ==
    /\ suggested_base_path # Nothing
    /\ \/ is_absolute(suggested_base_path[1])
       \/ ~IsRelativeTo(resolve(suggested_base_path[1]), resolve(file_base_path))

\* the suggested directory is there and passes validation
SuggestionValid == suggested_base_path # Nothing /\ ~SuggestionInvalid

\* C13 (as stated) - store direction, the base directory being available: an
\* absolute input is rejected with WebtoonPathError unless convert_absolute is
\* set; with it, it is stored only if it lies inside the base directory; a
\* relative input is resolved against the base directory; the stored form is
\* relative to the base directory.
C13_RelativeFromBase ==
    [][(Dumps /\ BaseAvailable) =>
         LET p == outcome'.arg[1]
             B == Base.ret
         IN  IF is_absolute(p) /\ ~convert_absolute
             THEN outcome'.exc = "WebtoonPathError"
             ELSE IF IsRelativeTo(From(B, p), B)
             THEN /\ outcome'.exc = NoExc
                  /\ outcome'.ret = Some(str(relative_to(From(B, p), B)))
             ELSE outcome'.exc # NoExc]_vars

\* C13 (amended) - store direction, the base directory being available: an
\* absolute input is rejected with WebtoonPathError unless convert_absolute is
\* set; any other input, absolute or relative, is resolved against the working
\* directory of the process and stored only if the result lies inside the base
\* directory, failing with ValueError otherwise; the stored form is relative,
\* has no ".." and, joined to the base directory, gives the resolved input.
C13_Store ==
    [][(Dumps /\ BaseAvailable) =>
         LET p == outcome'.arg[1]
             B == Base.ret
         IN  IF is_absolute(p) /\ ~convert_absolute
             THEN outcome'.exc = "WebtoonPathError" /\ _base_path' = _base_path
             ELSE IF IsRelativeTo(resolve(p), B)
             THEN /\ outcome'.exc = NoExc
                  /\ outcome'.ret = Some(str(relative_to(resolve(p), B)))
                  /\ ~is_absolute(Path(outcome'.ret[1]))
                  /\ \A i \in DOMAIN Path(outcome'.ret[1]).parts :
                        Path(outcome'.ret[1]).parts[i] # ".."
                  /\ Join(B, Path(outcome'.ret[1])) = resolve(p)
             ELSE outcome'.exc = "ValueError"]_vars

\* C13 witness - with the process in /data and the base directory /data/sub, the
\* relative path sub/a.jpg has been stored as a.jpg
C13_Witness ==
    /\ outcome.op = "dump"
    /\ outcome.exc = NoExc
    /\ outcome.arg = Some(Path(<<"sub", "/", "a.jpg">>))
    /\ outcome.ret = Some(<<"a.jpg">>)
    /\ cwd = Path(<<"/", "data">>)
    /\ _base_path = Some(Path(<<"/", "data", "/", "sub">>))

\* C14 - load direction: a stored string that is an absolute path raises
\* WebtoonPathError whatever convert_absolute is, and sets nothing; any other
\* stored string, the base directory being available, loads as the base
\* directory joined with the stored relative path.
C14_Load ==
    [][Loads =>
         LET raw == outcome'.arg[1]
         IN  IF is_absolute(Path(raw))
             THEN outcome'.exc = "WebtoonPathError" /\ _base_path' = _base_path
             ELSE IF BaseAvailable
             THEN /\ outcome'.exc = NoExc
                  /\ outcome'.ret = Some(Join(Base.ret, Path(raw)))
             ELSE outcome'.exc = Base.exc]_vars

\* C14 witness - with convert_absolute set and a base directory set, the load of
\* an absolute string has just raised WebtoonPathError
C14_Witness ==
    /\ outcome.op = "load"
    /\ outcome.exc = "WebtoonPathError"
    /\ outcome.arg = Some(<<"/", "other", "/", "a.jpg">>)
    /\ convert_absolute
    /\ ~self_contained
    /\ _base_path # Nothing

\* C15 (as stated) - for every path p that resolves under the base directory B,
\* load(dump(p)) = p; for every p outside B, dump(p) fails.
C15_RoundTripIsIdentity ==
    [][(outcome'.op = "load(dump)" /\ BaseAvailable) =>
         LET p == outcome'.arg[1]
         IN  IF IsRelativeTo(resolve(p), Base.ret)
             THEN outcome'.exc = NoExc /\ outcome'.ret = Some(p)
             ELSE outcome'.exc # NoExc]_vars

\* C15 (amended) - for every path p that resolves under the base directory B and
\* that dump accepts (p relative, or convert_absolute set), load(dump(p)) is p
\* resolved: absolute and normalised, so equal to p only when p already is; an
\* absolute p with convert_absolute unset fails with WebtoonPathError; for every
\* p outside B, dump(p) fails.
C15_RoundTripResolves ==
    [][(outcome'.op = "load(dump)" /\ BaseAvailable) =>
         LET p == outcome'.arg[1]
         IN  IF is_absolute(p) /\ ~convert_absolute
             THEN outcome'.exc = "WebtoonPathError"
             ELSE IF IsRelativeTo(resolve(p), Base.ret)
             THEN /\ outcome'.exc = NoExc
                  /\ outcome'.ret = Some(resolve(p))
                  /\ (outcome'.ret = Some(p)) <=> (p = resolve(p))
             ELSE outcome'.exc = "ValueError"]_vars

\* C15 witness - /data/sub/media/../a.jpg was stored and read back under the
\* base directory /data/sub, and came back as /data/sub/a.jpg
C15_Witness ==
    /\ outcome.op = "load(dump)"
    /\ outcome.exc = NoExc
    /\ outcome.arg = Some(Path(<<"/", "data", "/", "sub", "/", "media", "/", "..", "/", "a.jpg">>))
    /\ outcome.ret = Some(Path(<<"/", "data", "/", "sub", "/", "a.jpg">>))
    /\ _base_path = Some(Path(<<"/", "data", "/", "sub">>))

\* C16 - when the base directory is initialised from the suggested directory: a
\* suggestion that is absolute, or relative and resolving outside the folder of
\* the container file, raises WebtoonPathInitializationError when
\* fallback_base_path is unset and yields the folder of the container file when
\* it is set; a relative suggestion inside that folder is accepted.
C16_FallbackPolicy ==
    [][(Initializes /\ _base_path = Nothing /\ outcome'.arg = Nothing
          /\ suggested_base_path # Nothing) =>
         IF SuggestionValid
         THEN /\ outcome'.exc = NoExc
              /\ _base_path' = Some(resolve(suggested_base_path[1]))
         ELSE IF fallback_base_path
         THEN /\ outcome'.exc = NoExc
              /\ _base_path' = Some(resolve(file_base_path))
         ELSE /\ outcome'.exc = "WebtoonPathInitializationError"
              /\ _base_path' = Nothing]_vars

\* C17 - once the base directory is set (by initialize_base_path, by the setter
\* or by automatic initialisation in the getter) every further initialisation
\* raises WebtoonPathInitializationError and no call changes it; with automatic
\* initialisation off, and not in self-contained mode, a use of the base
\* directory before it is set raises WebtoonPathInitializationError and sets
\* nothing.
C17_InitializedOnce ==
    [][/\ _base_path # Nothing => _base_path' = _base_path
       /\ (Initializes /\ _base_path # Nothing)
            => outcome'.exc = "WebtoonPathInitializationError"
       /\ (Initializes /\ _base_path = Nothing /\ outcome'.exc = NoExc)
            => _base_path' # Nothing
       /\ (outcome'.op = "base_path" /\ outcome'.exc = NoExc)
            => _base_path' = outcome'.ret
       /\ (/\ _base_path = Nothing
           /\ ~auto_initialize_base_path
           /\ ~self_contained
           /\ \/ outcome'.op = "base_path"
              \/ Dumps /\ ~(is_absolute(outcome'.arg[1]) /\ ~convert_absolute)
              \/ Loads /\ ~is_absolute(Path(outcome'.arg[1])))
            => /\ outcome'.exc = "WebtoonPathInitializationError"
               /\ _base_path' = Nothing]_vars

\* C17 witness - an assignment to base_path of a path manager whose base
\* directory is set has just raised WebtoonPathInitializationError
C17_Witness ==
    /\ outcome.op = "base_path="
    /\ outcome.arg = Some(Path(<<"/", "other">>))
    /\ outcome.exc = "WebtoonPathInitializationError"
    /\ _base_path = Some(Path(<<"/", "data", "/", "sub">>))

\* C18 - when the base directory is resolved: an explicit directory is used
\* without validation, whatever is suggested and wherever it lies; without one,
\* a suggested directory that passes validation is used; without a suggestion,
\* the folder of the container file, which is the working directory for an
\* in-memory container. What is used is stored resolved.
C18_BasePathOrder ==
    [][/\ (Initializes /\ _base_path = Nothing /\ outcome'.arg # Nothing)
            => /\ outcome'.exc = NoExc
               /\ _base_path' = Some(resolve(outcome'.arg[1]))
       /\ (/\ _base_path = Nothing
           /\ \/ Initializes /\ outcome'.arg = Nothing
              \/ outcome'.op = "base_path" /\ ~self_contained /\ auto_initialize_base_path
           /\ SuggestionValid)
            => /\ outcome'.exc = NoExc
               /\ _base_path' = Some(resolve(suggested_base_path[1]))
       /\ (/\ _base_path = Nothing
           /\ \/ Initializes /\ outcome'.arg = Nothing
              \/ outcome'.op = "base_path" /\ ~self_contained /\ auto_initialize_base_path
           /\ suggested_base_path = Nothing)
            => /\ outcome'.exc = NoExc
               /\ _base_path' = Some(resolve(file_base_path))
               /\ in_memory => _base_path' = Some(cwd)
               /\ (~in_memory /\ is_absolute(path)) => _base_path' = Some(parent(path))]_vars

\* C18 witness - the container suggests a directory that passes validation, and
\* initialize_base_path(/other) has set the base directory to /other, outside
\* the folder of the container file
C18_Witness ==
    /\ outcome.op = "initialize_base_path"
    /\ outcome.exc = NoExc
    /\ outcome.arg = Some(Path(<<"/", "other">>))
    /\ SuggestionValid
    /\ ~in_memory
    /\ _base_path = Some(Path(<<"/", "other">>))

\* C19 - in self-contained mode every dump of a path, every load of a string and
\* every read of base_path raises WebtoonPathError and sets nothing, whatever
\* the path and whether or not a base directory is set.
C19_SelfContained ==
    [][(/\ self_contained
        /\ \/ Dumps
           \/ Loads
           \/ outcome'.op \in {"base_path", "load(dump)"})
        => /\ outcome'.exc = "WebtoonPathError"
           /\ outcome'.ret = Nothing
           /\ _base_path' = _base_path]_vars

\* C19 witness - in self-contained mode, with a base directory set earlier, the
\* dump of a relative path inside it has just raised WebtoonPathError
C19_Witness ==
    /\ outcome.op = "dump"
    /\ outcome.exc = "WebtoonPathError"
    /\ outcome.arg = Some(Path(<<"sub", "/", "a.jpg">>))
    /\ self_contained
    /\ cwd = Path(<<"/", "data">>)
    /\ _base_path = Some(Path(<<"/", "data", "/", "sub">>))

\* the types of the open domain of values
OpenDomain == {"NoneType", "bool", "int", "float", "str", "bytes", "JsonData", "Path"}

\* a value has just made the round trip
RoundTrips == outcome'.op = "value.load(dump_conversion_query_value)"

\* equality of two values, structural for JsonData: what they load as
ValueEqual(a, b) ==
    IF a.type = "JsonData" /\ b.type = "JsonData"
    THEN LET x == JsonData_load(PathWorld, a)
             y == JsonData_load(PathWorld, b)
         IN  x.exc = NoExc /\ y.exc = NoExc /\ x.ret = y.ret
    ELSE a = b

\* C20 (as stated) - for every value v of the open domain (None, bool, int,
\* float, str, bytes, JsonData, Path), primitive tagging on or off, loading the
\* primitive the forward conversion gave under the conversion it gave raises
\* nothing and returns a value equal to v, structurally for JsonData.
C20_RoundTrip ==
    [][(RoundTrips /\ outcome'.arg[1].value.type \in OpenDomain) =>
         /\ outcome'.exc = NoExc
         /\ ValueEqual(outcome'.ret[1], outcome'.arg[1].value)]_vars

\* C20 (what the code does) - the round trip returns a value equal to v for
\* every v of the open domain that is not a Path; for a Path whose forward
\* conversion succeeds, the load raises ValueError: load has no arm for the
\* conversion "path".
C20_RoundTripButPaths ==
    [][RoundTrips =>
         LET v == outcome'.arg[1].value
             f == dump_conversion_query_value(PathWorld, v, None,
                                              outcome'.arg[1].primitive_conversion)
         IN  /\ v.type \in OpenDomain \ {"Path"} =>
                  /\ outcome'.exc = NoExc
                  /\ ValueEqual(outcome'.ret[1], v)
             /\ v.type = "Path" =>
                  /\ f.exc = NoExc => (f.ret.conversion = "path" /\ outcome'.exc = "ValueError")
                  /\ f.exc # NoExc => outcome'.exc = f.exc]_vars

\* C20 witness of the failure - the round trip of the relative path a.jpg,
\* stored from /data/sub, has just raised ValueError
C20_PathRoundTripRaised ==
    /\ outcome.op = "value.load(dump_conversion_query_value)"
    /\ outcome.arg[1].value = PyPath(Path(<<"a.jpg">>))
    /\ outcome.exc = "ValueError"
    /\ _base_path = Some(Path(<<"/", "data", "/", "sub">>))
    /\ cwd = Path(<<"/", "data", "/", "sub">>)

\* a value has just been converted forward
Converts == outcome'.op = "dump_conversion_query_value"

\* a value has just been converted forward, the conversion left to be inferred
Infers == Converts /\ outcome'.arg[1].conversion = None

\* the primitive types that are tagged only on request
Primitives == {"str", "bytes", "int", "float"}

\* the template that casts to the storage class of a conversion
CastTemplate ==
    [str |-> "CAST(? AS TEXT)", bytes |-> "CAST(? AS BLOB)",
     int |-> "CAST(? AS INTEGER)", float |-> "CAST(? AS REAL)"]

\* C21 - the forward conversion tags every bool "bool" and None "null", with
\* primitive tagging on and off; the int 1 is tagged "int" with tagging on and
\* never "bool"; and the round trip of a bool is that bool, of an int that int.
C21_BoolAndNullAlwaysTagged ==
    [][LET v == outcome'.arg[1].value
       IN  /\ (Infers /\ v.type = "bool") =>
                  /\ outcome'.exc = NoExc
                  /\ outcome'.ret[1].conversion = "bool"
           /\ (Infers /\ v.type = "NoneType") =>
                  /\ outcome'.exc = NoExc
                  /\ outcome'.ret[1].conversion = "null"
           /\ (Infers /\ v.type = "int") =>
                  /\ outcome'.exc = NoExc
                  /\ outcome'.ret[1].conversion
                       = (IF outcome'.arg[1].primitive_conversion THEN "int" ELSE None)
           /\ (RoundTrips /\ v.type \in {"bool", "int"}) =>
                  /\ outcome'.exc = NoExc
                  /\ outcome'.ret[1] = v]_vars

\* C21 witness - True has just been converted with primitive tagging off, and
\* is tagged "bool"
C21_Witness ==
    /\ outcome.op = "dump_conversion_query_value"
    /\ outcome.arg[1] = [value |-> PyBool("True"), conversion |-> None,
                         primitive_conversion |-> FALSE]
    /\ outcome.exc = NoExc
    /\ outcome.ret[1].conversion = "bool"

\* C22 (as stated) - a JsonData is tagged with its own conversion and gets the
\* template of that conversion: "jsonb" with jsonb(?), "json" with json(?).
C22_PayloadOwnConversion ==
    [][(Infers /\ outcome'.arg[1].value.type = "JsonData") =>
         /\ outcome'.exc = NoExc
         /\ outcome'.ret[1].conversion = outcome'.arg[1].value.conversion
         /\ outcome'.ret[1].query
              = (IF outcome'.arg[1].value.conversion = "jsonb" THEN "jsonb(?)" ELSE "json(?)")]_vars

\* C23 (as stated) - with primitive tagging off a str, int, float or bytes gets
\* no tag and the template ?; with tagging on it gets the tag of its type and
\* the template CAST(? AS <type>).
C23_TaggedPrimitivesAreCast ==
    [][(Infers /\ outcome'.arg[1].value.type \in Primitives) =>
         /\ outcome'.exc = NoExc
         /\ IF outcome'.arg[1].primitive_conversion
            THEN /\ outcome'.ret[1].conversion = outcome'.arg[1].value.type
                 /\ outcome'.ret[1].query = CastTemplate[outcome'.arg[1].value.type]
            ELSE /\ outcome'.ret[1].conversion = None
                 /\ outcome'.ret[1].query = "?"]_vars

\* C23 (amended) - with primitive tagging off a str, int, float or bytes gets
\* no tag, with tagging on the tag of its type, and in both cases the template
\* ?; the template CAST(? AS <type>) is given only when the caller names the
\* conversion, and then whatever the tagging and the type of the value.
C23_PrimitiveTagsAndTemplates ==
    [][(Converts /\ outcome'.arg[1].value.type \in Primitives) =>
         /\ outcome'.arg[1].conversion = None =>
              /\ outcome'.exc = NoExc
              /\ outcome'.ret[1].conversion
                   = (IF outcome'.arg[1].primitive_conversion
                      THEN outcome'.arg[1].value.type ELSE None)
              /\ outcome'.ret[1].query = "?"
         /\ outcome'.arg[1].conversion \in Primitives =>
              /\ outcome'.exc = NoExc
              /\ outcome'.ret[1].conversion = outcome'.arg[1].conversion
              /\ outcome'.ret[1].query = CastTemplate[outcome'.arg[1].conversion]]_vars

\* C23 witness - the str "a" has just been converted with primitive tagging
\* on: tag "str", template ?
C23_Witness ==
    /\ outcome.op = "dump_conversion_query_value"
    /\ outcome.arg[1] = [value |-> PyStr(<<"a">>), conversion |-> None,
                         primitive_conversion |-> TRUE]
    /\ outcome.exc = NoExc
    /\ outcome.ret[1] = [conversion |-> "str", query |-> "?", value |-> PyStr(<<"a">>)]

\* C24 (as stated) - inferring the conversion of a value outside the open
\* domain raises ValueError, with primitive tagging on and off.
C24_UnsupportedShapeFails ==
    [][(Infers /\ outcome'.arg[1].value.type \notin OpenDomain) =>
         outcome'.exc = "ValueError"]_vars

\* C24 (amended) - inferring the conversion of a value outside the open domain
\* raises ValueError with primitive tagging on; with tagging off it raises
\* nothing and the value is handed on untagged, with the template ?.
C24_UnsupportedShape ==
    [][(Infers /\ outcome'.arg[1].value.type \notin OpenDomain) =>
         IF outcome'.arg[1].primitive_conversion
         THEN outcome'.exc = "ValueError" /\ outcome'.ret = Nothing
         ELSE /\ outcome'.exc = NoExc
              /\ outcome'.ret[1] = [conversion |-> None, query |-> "?",
                                    value |-> outcome'.arg[1].value]]_vars

\* C24 witness - the conversion of a list has just been inferred with primitive
\* tagging on, and ValueError raised
C24_Witness ==
    /\ outcome.op = "dump_conversion_query_value"
    /\ outcome.arg[1] = [value |-> PyList(<<>>), conversion |-> None,
                         primitive_conversion |-> TRUE]
    /\ outcome.exc = "ValueError"

\* the parsed value of a JsonData, as a world: its value or JSONDecodeError
Represents(j) == JsonData_load(JsonWorld, j)

\* C25 (as stated) - two raw JsonData with the same text compare equal, parsed
\* or not; in every other case both are parsed, and they compare equal exactly
\* when their parsed values are equal, so that two JsonData of different
\* content compare unequal.
C25_EqualityIsStructural ==
    [][outcome'.op = "JsonData.__eq__" =>
         LET self == payload[1]
             other == outcome'.arg[1]
         IN  IF ~loaded(self) /\ ~loaded(other) /\ self._raw = other._raw
             THEN outcome'.exc = NoExc /\ outcome'.ret = Some(TRUE)
             ELSE IF Represents(self).exc # NoExc \/ Represents(other).exc # NoExc
             THEN outcome'.exc = "JSONDecodeError"
             ELSE /\ outcome'.exc = NoExc
                  /\ outcome'.ret = Some(PyEq(Represents(self).ret,
                                              Represents(other).ret))]_vars

\* C25 witness of the failure - the raw JsonData "1" has just compared equal to
\* the raw JsonData "0"
C25_DifferentRawCompareEqual ==
    /\ outcome.op = "JsonData.__eq__"
    /\ payload = Some(JsonData(PyNone, PyStr(<<"1">>), "json"))
    /\ outcome.arg = Some(JsonData(PyNone, PyStr(<<"0">>), "json"))
    /\ outcome.ret = Some(TRUE)

\* a JsonData holds a text or data, not both
OneState(j) == j._raw.type = "NoneType" \/ j._data.type = "NoneType"

\* C26 - a JsonData never holds both a text and data: constructing one with
\* both raises ValueError and makes nothing, and a dump or a load, with or
\* without replacement, leaves it holding one of the two and standing for an
\* equal value (or, its text not being JSON, leaves it as it was); the dump of
\* one that holds a text returns that text and changes nothing.
C26_RawOrMaterialized ==
    [][/\ outcome'.op = "JsonData" =>
            IF outcome'.arg[1].data.type # "NoneType" /\ outcome'.arg[1].raw.type # "NoneType"
            THEN outcome'.exc = "ValueError" /\ payload' = payload
            ELSE outcome'.exc = NoExc /\ OneState(payload'[1])
       /\ outcome'.op \in {"JsonData.dump", "JsonData.load"} =>
            /\ OneState(payload'[1])
            /\ IF Represents(payload[1]).exc # NoExc
               THEN payload' = payload
               ELSE /\ outcome'.exc = NoExc
                    /\ JsonData_load(JsonWorld, payload'[1]).exc = NoExc
                    /\ PyEq(JsonData_load(JsonWorld, payload'[1]).ret,
                            Represents(payload[1]).ret)
       /\ (outcome'.op = "JsonData.dump" /\ ~loaded(payload[1])) =>
            /\ outcome'.exc = NoExc
            /\ outcome'.ret = Some(payload[1]._raw)
            /\ payload' = payload]_vars

\* C26 witness - a JsonData made from a text with whitespace, loaded with
\* replacement, has just been dumped with replacement: it holds the compact
\* text and no data
C26_Witness ==
    /\ outcome.op = "JsonData.dump"
    /\ outcome.arg = Some(TRUE)
    /\ payload = Some(JsonData(PyNone, PyStr(<<"[", "1", ",", "null", "]">>), "json"))
    /\ outcome.ret = Some(PyStr(<<"[", "1", ",", "null", "]">>))

\* a handle holds a bare id and no record
Unresolved(h) == h._media_id # Nothing /\ h._media = Nothing

\* a handle holds a record and no id
Resolved(h) == h._media_id = Nothing /\ h._media # Nothing

\* C27 - a handle holds exactly one of a bare id and a resolved record:
\* constructing one with both or with neither raises ValueError and makes
\* nothing, and whatever load(store_media=...) and media_id(store_id=...) calls
\* were made on it, it holds an id or a record, never both and never neither.
C27_ExactlyOneOfIdAndRecord ==
    /\ handle # Nothing => (Unresolved(handle[1]) \/ Resolved(handle[1]))
    /\ (/\ outcome.op = "WebtoonMedia"
        /\ (outcome.arg[1].media_id = Nothing) = (outcome.arg[1].media = Nothing)) =>
            outcome.exc = "ValueError"

\* C27 witness - a handle that add returned as a bare id has been resolved with
\* replacement and has just been turned back into its id with replacement
C27_Witness ==
    /\ outcome.op = "WebtoonMedia.media_id"
    /\ outcome.arg = Some(TRUE)
    /\ handle # Nothing
    /\ Unresolved(handle[1])
    /\ handle[1]._webtoon
    /\ outcome.ret = Some(1)
    /\ \E r \in media : r.id = 1 /\ r.path # Nothing

\* C28 - load on a handle that holds a bare id fetches the record of the row
\* with that id (or raises what the fetch raises), and the handle then holds
\* that record only when store_media is set; media_id returns the id of the
\* handle in either state, and the handle then holds the bare id only when
\* store_id is set; load on a handle that holds a record returns that record
\* and changes nothing.
C28_ResolveAndAsId ==
    [][/\ (outcome'.op = "WebtoonMedia.load" /\ Unresolved(handle[1])) =>
            \E f \in {_load(MediaWorld, handle[1]._media_id[1])} :
                /\ outcome'.exc = f.exc
                /\ f.exc = NoExc => outcome'.ret = Some(f.ret)
                /\ handle' = IF f.exc = NoExc /\ outcome'.arg = Some(TRUE)
                             THEN Some([handle[1] EXCEPT !._media_id = Nothing,
                                                         !._media = Some(f.ret)])
                             ELSE handle
       /\ (outcome'.op = "WebtoonMedia.load" /\ Resolved(handle[1])) =>
            /\ outcome'.exc = NoExc
            /\ outcome'.ret = Some(handle[1]._media[1])
            /\ handle' = handle
       /\ outcome'.op = "WebtoonMedia.media_id" =>
            \E id \in {IF Unresolved(handle[1]) THEN handle[1]._media_id[1]
                       ELSE handle[1]._media[1].media_id} :
                /\ outcome'.exc = NoExc
                /\ outcome'.ret = Some(id)
                /\ handle' = IF Resolved(handle[1]) /\ outcome'.arg = Some(TRUE)
                             THEN Some([handle[1] EXCEPT !._media_id = Some(id),
                                                         !._media = Nothing])
                             ELSE handle]_vars

\* C28 witness of the failure - a handle made from a record and turned into
\* its id has just been asked for the record of its row, which is there, and
\* has raised AttributeError
C28_UnresolvedWithoutWebtoon ==
    /\ outcome.op = "WebtoonMedia.load"
    /\ outcome.exc = "AttributeError"
    /\ Unresolved(handle[1])
    /\ ~handle[1]._webtoon
    /\ \E r \in media : r.id = handle[1]._media_id[1]

\* C29 - outside self-contained mode add_path_or_data writes the file and then
\* adds a row that holds the stored path and a conversion; when the call has
\* written the file and adding the row raises, the file is not there
\* afterwards, the table is as it was, and the call raises what adding the
\* row raised, not an error of the cleanup.
C29_FileThenRowWithCleanup ==
    [][(outcome'.op = "add_path_or_data" /\ ~self_contained) =>
        \E a \in {outcome'.arg[1]} :
            /\ outcome'.exc = NoExc =>
                /\ File(resolve(a.path), dump_bytes_value(MediaWorld, a.data).ret) \in disk'
                /\ \E r \in media' \ media :
                     /\ media' = media \cup {r}
                     /\ r.path # Nothing
                     /\ Join(_base_path'[1], Path(r.path[1])) = resolve(a.path)
                     /\ r.conversion # None
                     /\ r.data = PyNone
            /\ (outcome'.exc # NoExc /\ Written(MediaWorld, a.path, a.data, a.mkdir)) =>
                /\ outcome'.exc = WriteThenAdd(MediaWorld, a.path, a.data, a.episode_no, 1,
                                               "image", a.conversion, a.mkdir).exc
                /\ \A f \in disk' : f.path # resolve(a.path)
                /\ media' = media]_vars

\* C29 witness of the failure - the payload was written over a file in a
\* directory the process may not change, adding the row raised, unlinking the
\* file raised PermissionError, and that is what the call raised; the file is
\* still there with the new content
C29_CleanupErrorReported ==
    /\ outcome.op = "add_path_or_data"
    /\ outcome.exc = "PermissionError"
    /\ File(Path(<<"/", "data", "/", "ro", "/", "a.jpg">>), PyBytes(<<"a">>)) \in disk

\* C30 - add takes an inline value without a conversion, or a path with a
\* conversion: a call that succeeds adds one row, and an inline value with a
\* conversion, as well as a path without one, raises and leaves the table as
\* it was.
C30_ValueOrPathWithTag ==
    [][outcome'.op = "add" =>
        \E a \in {outcome'.arg[1]} :
            /\ outcome'.exc = NoExc =>
                \E r \in media' \ media :
                    /\ media' = media \cup {r}
                    /\ (r.path # Nothing) = (a.path_or_data.type = "Path")
            /\ outcome'.exc # NoExc => media' = media
            /\ (a.path_or_data.type # "Path" /\ a.conversion # None) =>
                outcome'.exc = "ValueError"
            /\ (a.path_or_data.type = "Path" /\ a.conversion = None) =>
                outcome'.exc # NoExc]_vars

\* C30 witness of the failure - add has just taken a path without a conversion
\* and added a row with that path under the conversion "null"
C30_PathWithoutTagAccepted ==
    /\ outcome.op = "add"
    /\ outcome.exc = NoExc
    /\ outcome.arg[1].path_or_data.type = "Path"
    /\ outcome.arg[1].conversion = None
    /\ \E r \in media :
        /\ handle = Some(WebtoonMedia(Some(r.id), TRUE, Nothing))
        /\ r.path # Nothing
        /\ r.conversion = "null"

\* a record has a path beside its data, or a path and no conversion
Rejected(m) ==
    \/ m.path # Nothing /\ m.data # PyNone
    \/ m.path # Nothing /\ m.conversion = None

\* the rows other than the one with this id are as they were
OthersKept(id) == {r \in media' : r.id # id} = {r \in media : r.id # id}

\* C31 - set raises ValueError for a record that has both data and a path, and
\* for one that has a path and no conversion, and leaves the table and the
\* files as they were; a record with neither data nor a path is taken, and
\* the row with its id then has no data and no path; a record whose id no row
\* has raises KeyError and changes nothing.
C31_UpdateChecksRecord ==
    [][outcome'.op = "set" =>
        \E m \in {outcome'.arg[1]} :
            /\ Rejected(m) =>
                /\ outcome'.exc = "ValueError"
                /\ media' = media
                /\ disk' = disk
            /\ (m.path = Nothing /\ m.data = PyNone /\ \E r \in media : r.id = m.media_id) =>
                /\ outcome'.exc = NoExc
                /\ \E r \in media' :
                     r.id = m.media_id /\ r.path = Nothing /\ r.data = PyNone
                /\ OthersKept(m.media_id)
            /\ (~Rejected(m) /\ \A r \in media : r.id # m.media_id) =>
                /\ outcome'.exc = "KeyError"
                /\ media' = media
                /\ disk' = disk]_vars

\* C31 witness of the failure - the record of a row that holds null, with its
\* conversion and neither data nor a path, has just been written back and
\* raised ValueError
C31_TaggedClearRejected ==
    /\ outcome.op = "set"
    /\ outcome.exc = "ValueError"
    /\ outcome.arg[1].path = Nothing
    /\ outcome.arg[1].data = PyNone
    /\ outcome.arg[1].conversion = "null"
    /\ \E r \in media : r.id = outcome.arg[1].media_id /\ r.conversion = "null"

\* the row of the handle the program holds
RowOf(h) == {r \in media : r.id = WebtoonMedia_media_id([MediaWorld EXCEPT !.handle = Some(h)], FALSE).ret}

\* the file a row refers to: its path as the path manager loads it
FileOf(r) == load(MediaWorld, r.path).ret[1]

\* the value of the file of a row under the conversion of the row
Decoded(r) == load_bytes_value(read_bytes(MediaWorld, FileOf(r)), r.conversion,
                               read_bytes(MediaWorld, FileOf(r)).ret, TRUE)

\* C32 - load_data on a handle whose row has a path, with the file there and
\* its bytes decodable under the conversion of the row, returns the decoded
\* value; with store_data it does so as well, and the row then holds that
\* value as its data and has no path; without store_data the table is as it
\* was.
C32_MaterializeAndPersist ==
    [][outcome'.op = "load_data" =>
        \A r \in RowOf(handle[1]) :
            (/\ r.path # Nothing
             /\ read_bytes(MediaWorld, FileOf(r)).exc = NoExc
             /\ Decoded(r).exc = NoExc) =>
                /\ outcome'.exc = NoExc
                /\ outcome'.ret = Some(Decoded(r).ret)
                /\ disk' = disk
                /\ IF outcome'.arg = Some(TRUE)
                   THEN /\ \E s \in media' :
                             /\ s.id = r.id
                             /\ s.path = Nothing
                             /\ s.data = SqlExpr("?", Decoded(r).ret)
                        /\ OthersKept(r.id)
                   ELSE media' = media]_vars

\* C32 witness of the failure - load_data with store_data on a row that has a
\* path and the conversion "bytes", its file there, has just raised ValueError
\* and the row still has its path
C32_PersistRejected ==
    /\ outcome.op = "load_data"
    /\ outcome.arg = Some(TRUE)
    /\ outcome.exc = "ValueError"
    /\ \E r \in RowOf(handle[1]) :
        /\ r.path # Nothing
        /\ r.conversion = "bytes"
        /\ read_bytes(MediaWorld, FileOf(r)).exc = NoExc

\* C33 - dump_path on a handle whose row has no path, where the file can be
\* written, writes the bytes of the data of the row to the given path, and the
\* row then has that path, a conversion and no data, the other rows being as
\* they were; on a handle whose row has a path it returns that path as load
\* gives it and changes neither the files nor the table.
C33_SpillOnlyInline ==
    [][outcome'.op = "dump_path" =>
        \A r \in RowOf(handle[1]) :
            \E p \in {outcome'.arg[1]}, m \in {_load(MediaWorld, r.id).ret} :
                IF r.path = Nothing
                THEN write_bytes(mkdir(MediaWorld, parent(p)), p, PyBytes(<<>>)).exc = NoExc =>
                        /\ outcome'.exc = NoExc
                        /\ File(resolve(p), dump_bytes_value(MediaWorld, m.data).ret) \in disk'
                        /\ \E s \in media' :
                             /\ s.id = r.id
                             /\ s.path # Nothing
                             /\ load([MediaWorld EXCEPT !._base_path = _base_path'],
                                     s.path).ret = Some(resolve(p))
                             /\ s.conversion # None
                             /\ s.data = PyNone
                        /\ OthersKept(r.id)
                ELSE /\ outcome'.exc = NoExc
                     /\ outcome'.ret = m.path
                     /\ disk' = disk
                     /\ media' = media]_vars

\* C33 witness - a row that held bytes inline has just been spilled: the file
\* is there with the bytes, and the row has the path, the conversion "bytes"
\* and no data
C33_Witness ==
    /\ outcome.op = "dump_path"
    /\ outcome.exc = NoExc
    /\ File(Path(<<"/", "data", "/", "new", "/", "b.jpg">>), PyBytes(<<"a">>)) \in disk
    /\ \E r \in RowOf(handle[1]) :
        /\ r.path = Some(<<"new", "/", "b.jpg">>)
        /\ r.conversion = "bytes"
        /\ r.data = PyNone

\* C34 - remove deletes the row with the id of the handle and no other row;
\* when no row has that id it raises KeyError and the table is as it was; in
\* either case the files are as they were, that of a removed row included.
C34_DeleteKeepsFile ==
    [][outcome'.op = "remove" =>
        \E id \in {WebtoonMedia_media_id(MediaWorld, FALSE).ret} :
            /\ disk' = disk
            /\ IF \E r \in media : r.id = id
               THEN /\ outcome'.exc = NoExc
                    /\ media' = {r \in media : r.id # id}
               ELSE /\ outcome'.exc = "KeyError"
                    /\ media' = media]_vars

\* C34 witness - one of two rows has just been removed and the other is
\* there; no row has a path any more, and the file a bool was spilled to is
\* still there
C34_Witness ==
    /\ outcome.op = "remove"
    /\ outcome.exc = NoExc
    /\ \E r \in media : r.id # outcome.arg[1]._media_id[1]
    /\ \A r \in media : r.path = Nothing
    /\ IsFile(MediaWorld, Path(<<"/", "data", "/", "new", "/", "b.jpg">>))
    /\ \A f \in disk : f.kind = "file" /\ f.path = Path(<<"/", "data", "/", "new", "/", "b.jpg">>)
                        => f.content = PyBytes(<<"1">>)

\* C35 - whatever calls of add_path_or_data, dump_path, load_data, set and
\* remove were made, whether they raised or not, and wherever the process
\* stopped between writing a file and adding its row, the path of every row
\* is that of a file that is there.
C35_NoDanglingReference ==
    \A r \in media : r.path # Nothing => IsFile(MediaWorld, FileOf(r))

\* C35 witness of the failure - add_path_or_data has just written to the file
\* of a row, failed to add its own row and unlinked the file: the row that was
\* there before refers to a file that is gone
C35_CleanupUnlinksSharedFile ==
    /\ outcome.op = "add_path_or_data"
    /\ outcome.exc = "IntegrityError"
    /\ \E r \in media :
        /\ r.path # Nothing
        /\ FileOf(r) = resolve(outcome.arg[1].path)
        /\ ~IsFile(MediaWorld, FileOf(r))

\* the container holds the marker, the current version or one set since, the
\* six tables and the baseline Info rows, but for the row the user edits
Bootstrapped ==
    /\ file.kind = "db"
    /\ file.application_id = APPLICATION_ID
    /\ file.user_version >= user_version
    /\ file.tables = TableNames
    /\ \A n \in BaselineInfoNames \ EditNames : file.info[n] = "base"

\* C36 - a connect() that raises leaves the target file as it was before the
\* call, so a target that was missing or empty when the program started holds,
\* after every writable connect() that succeeds, whatever connect() calls
\* failed before it, the marker, the version, the six tables and the baseline
\* Info rows.
C36_FailedOpenLeavesNoTrace ==
    /\ [][(OpensFile /\ outcome'.exc # NoExc) => file' = file]_vars
    /\ file.kind \in {"missing", "empty"} =>
           []((OpenedFile /\ ~settings.read_only) => Bootstrapped)

\* C36 witness of the failure - a writable connect() to a missing target has
\* just failed on the journaling mode, and the target is now a file with the
\* marker and the version, without tables and Info rows
C36_FailedOpenLeftHeader ==
    /\ outcome.op = "connect"
    /\ outcome.exc = "WebtoonOpenError"
    /\ path = FilePath
    /\ before.kind = "missing"
    /\ file.kind = "db"
    /\ file.application_id = APPLICATION_ID
    /\ file.user_version = user_version
    /\ file.tables = {}
    /\ \A n \in BaselineInfoNames : file.info[n] = "absent"

\* C37 - every path that load returns for a stored string refers, once
\* resolved, to the base directory or to something below it, whatever
\* components the string has.
C37_LoadedPathInsideBase ==
    [][(Loads /\ outcome'.exc = NoExc) =>
         IsRelativeTo(resolve(outcome'.ret[1]), resolve(_base_path'[1]))]_vars

\* C37 witness of the failure - under the base directory /data/sub the stored
\* string ../a.jpg has just been loaded as /data/sub/../a.jpg, which is the
\* file /data/a.jpg outside the base directory
C37_StoredParentEscapes ==
    /\ outcome.op = "load"
    /\ outcome.exc = NoExc
    /\ outcome.arg = Some(<<"..", "/", "a.jpg">>)
    /\ _base_path = Some(Path(<<"/", "data", "/", "sub">>))
    /\ outcome.ret = Some(Path(<<"/", "data", "/", "sub", "/", "..", "/", "a.jpg">>))
    /\ resolve(outcome.ret[1]) = Path(<<"/", "data", "/", "a.jpg">>)

\* C38 - connect() on a manager that is read-only changes nothing in the
\* target, whether it raises or not, whatever the stored marker and version, the
\* bypass flag and the override variables are, and neither does the close()
\* after it; the journaling mode is not touched: such a connect() to a target
\* that is there never fails on it.
C38_ReadOnlyOpenKeepsContainer ==
    [][(settings.read_only /\ outcome'.op \in {"connect", "close"}) =>
         /\ file' = file
         /\ memdb' = memdb
         /\ (outcome'.op = "connect" /\ path = FilePath /\ file.kind # "missing") =>
                outcome'.exc \in {NoExc, "WebtoonSchemaError"}]_vars

\* C38 witness - a container at version 0 was opened read-only with the past
\* format override set and a journal_mode that is none, with a warning, and
\* has just been closed: it is still at version 0 and without tables
C38_Witness ==
    /\ outcome.op = "close"
    /\ settings.read_only
    /\ settings.journal_mode = "bogus"
    /\ ~settings.bypass_integrity_check
    /\ env["WBTN_FORCE_OPEN_PAST_FORMAT"] = "1"
    /\ existed
    /\ file.kind = "db"
    /\ file.application_id = APPLICATION_ID
    /\ file.user_version = 0
    /\ file.tables = {}

\* C39 - set on the record that the handle of a row has just loaded, as it
\* is, raises nothing and leaves the table as it was, whatever the row holds:
\* a bool, null or JSON under its conversion, bytes under none, or a path.
C39_WriteBackUnchanged ==
    [][(/\ outcome'.op = "set"
        /\ WebtoonMedia_load(MediaWorld, FALSE).exc = NoExc
        /\ outcome'.arg = Some(WebtoonMedia_load(MediaWorld, FALSE).ret)) =>
            /\ outcome'.exc = NoExc
            /\ media' = media]_vars

\* C39 witness of the failure - the record of a row that holds a bool under
\* the conversion "bool" has just been written back as loaded and raised
\* ValueError
C39_TaggedRecordRejected ==
    /\ outcome.op = "set"
    /\ outcome.exc = "ValueError"
    /\ outcome.arg = Some(WebtoonMedia_load(MediaWorld, FALSE).ret)
    /\ outcome.arg[1].conversion = "bool"
    /\ outcome.arg[1].data = PyBool("True")
    /\ outcome.arg[1].path = Nothing

\* C40 - a handle that holds a bare id holds its webtoon as well, whatever
\* load(store_media=...) and media_id(store_id=...) calls were made on it and
\* however it was constructed, so that load can fetch its record.
C40_UnresolvedHoldsWebtoon ==
    (handle # Nothing /\ Unresolved(handle[1])) => handle[1]._webtoon

\* C40 witness of the failure - a handle made from a record has just been
\* turned into its id by media_id(store_id=True): it holds the id of a row
\* that is there, and no webtoon
C40_AsIdWithoutWebtoon ==
    /\ outcome.op = "WebtoonMedia.media_id"
    /\ outcome.arg = Some(TRUE)
    /\ outcome.exc = NoExc
    /\ Unresolved(handle[1])
    /\ ~handle[1]._webtoon
    /\ \E r \in media : r.id = handle[1]._media_id[1]

====
